---- MODULE Spec2Model ----
(***************************************************************************)
(* LoRa-HomeKit-Bridge: the device synchronisation engine.                 *)
(*                                                                         *)
(* The model follows the firmware's single-threaded loop: every action is  *)
(* one handler run to completion (a received radio packet, a web request,  *)
(* a message-bus connect, a restart).  The program state is the device     *)
(* registry (devices[] / device_count), the accessory database of the      *)
(* HomeKit runtime, the NVS key/value store, the activity log, the radio   *)
(* statistics and the retained documents on the message bus.               *)
(***************************************************************************)
EXTENDS Integers, Sequences, FiniteSets, TLC

(***************************************************************************)
(* Bounds of the model.  MAX_DEVICES, ID_SIZE and MAX_ACTIVITY_LOG are the *)
(* program's array sizes (20, 32 and 20 in the source) scaled down so that *)
(* a full registry, an over-long id and a wrapped log are reached within   *)
(* a few steps.                                                            *)
(***************************************************************************)
MAX_DEVICES == 2
ID_SIZE == 2
MAX_ACTIVITY_LOG == 2
MaxSteps == 3
MaxPackets == 2

(***************************************************************************)
(* The clock of the bus-session specification.  millis() is an unsigned    *)
(* long that wraps around; the model keeps ClockBits of it and advances it *)
(* in ticks of 2^TickBits ms, at most MaxPassTicks per loop pass, so that  *)
(* both intervals of the bus code and the wrap-around are reached.         *)
(***************************************************************************)
ClockBits == 16
TickBits == 12
MaxPassTicks == 1

(***************************************************************************)
(* The payload cipher is checked on buffers of up to MaxBufLen bytes (two  *)
(* blocks and a partial one) decrypted up to MaxDecrypts times.            *)
(***************************************************************************)
MaxBufLen == 33
MaxDecrypts == 2

(***************************************************************************)
(* The runs of the capacity specification: long enough to fill the         *)
(* registry, remove a record and receive a further packet.                 *)
(***************************************************************************)
MaxCapacitySteps == 4

(***************************************************************************)
(* The runs of the settings specification: a device saved, the settings    *)
(* saved, a restart.                                                       *)
(***************************************************************************)
MaxSettingsSteps == 3

(***************************************************************************)
(* The runs of the activity-log specification: an entry, a clear, and      *)
(* enough entries to wrap the log after it.                                *)
(***************************************************************************)
MaxActivitySteps == 5

VARIABLES
    devices,            \* Device devices[MAX_DEVICES], the first device_count slots
    accessories,        \* homeSpan's accessory database, in creation order
    homekit_started,    \* bool homekit_started
    prefs,              \* the NVS namespace "lora_hk": key -> value
    activityLog,        \* ActivityEntry activityLog[MAX_ACTIVITY_LOG]
    activityLogCount,   \* int activityLogCount
    activityLogIndex,   \* int activityLogIndex
    packets_received,   \* uint32_t packets_received
    last_packet_time,   \* unsigned long last_packet_time
    last_event,         \* String last_event
    mqtt_enabled,       \* bool mqtt_enabled (a setting)
    mqtt_connected,     \* mqttClient.connected()
    retained,           \* retained documents on the broker: topic -> payload
    lastDiagnosticsPublish, \* unsigned long lastDiagnosticsPublish
    lastMqttReconnect,  \* unsigned long lastMqttReconnect
    since,              \* time since the loop's last connection attempt and
                        \* since the last diagnostics publication (sessions)
    homekit_code,       \* char homekit_code[9]
    testCounter,        \* static int testCounter of handleTestDevice
    cipher,             \* encryption_mode, encrypt_key, encrypt_key_len and
                        \* the receive buffer handed to decryptBuffer
    now,                \* millis()
    steps,              \* number of handlers run so far (bounds the runs)
    last_op             \* the handler that ran last and how it ended

vars == <<devices, accessories, homekit_started, prefs, activityLog,
          activityLogCount, activityLogIndex, packets_received,
          last_packet_time, last_event, mqtt_enabled, mqtt_connected,
          retained, lastDiagnosticsPublish, lastMqttReconnect, since,
          homekit_code, testCounter, cipher, now, steps, last_op>>

(***************************************************************************)
(* Strings are sequences of characters, so that strncpy can truncate them. *)
(***************************************************************************)
Min(a, b) == IF a < b THEN a ELSE b

\* strncpy(dst, src, n - 1) into a zeroed char dst[n]: the first n - 1 characters
StrNCpy(src, n) == SubSeq(src, 1, Min(Len(src), n - 1))

\* strcmp(a, b) == 0
StrEq(a, b) == a = b

EmptyStr == <<>>
ShortId == <<"a">>
OtherId == <<"b">>
\* an id one character longer than char id[ID_SIZE] can store
LongId == [i \in 1..ID_SIZE |-> "a"]
NewName == <<"n">>
LongName == [i \in 1..ID_SIZE |-> "n"]

GATEWAY_KEY == "xy"

(***************************************************************************)
(* JSON values of a packet document: a number, a boolean or a string.      *)
(***************************************************************************)
Num(n) == [kind |-> "num", val |-> n]
Bool(b) == [kind |-> "bool", val |-> b]
Str(s) == [kind |-> "str", val |-> s]

\* doc.containsKey(key)
containsKey(doc, key) == key \in DOMAIN doc

\* doc[key].as<float>() / as<int>() of a JSON number (temperatures in tenths)
AsNumber(v) == IF v.kind = "num" THEN v.val ELSE 0

\* the m / c conversion of updateDevice: a JSON boolean as it is, anything
\* else through its string form
AsFlag(v) ==
    IF v.kind = "bool" THEN v.val
    ELSE IF v.kind = "str" THEN v.val \in {"on", "1", "true"}
    ELSE v.val = 1

(***************************************************************************)
(* Device records.                                                         *)
(***************************************************************************)
CONTACT_TYPE_CONTACT == 0
CONTACT_TYPE_LEAK == 1
CONTACT_TYPE_SMOKE == 2
CONTACT_TYPE_CO == 3
CONTACT_TYPE_OCCUPANCY == 4
MOTION_TYPE_MOTION == 0
MOTION_TYPE_OCCUPANCY == 1
MOTION_TYPE_LEAK == 2
MOTION_TYPE_SMOKE == 3
MOTION_TYPE_CO == 4

\* memset(dev, 0, sizeof(Device))
ZeroDevice ==
    [id |-> EmptyStr, name |-> EmptyStr, active |-> FALSE, rssi |-> 0,
     last_seen |-> 0,
     has_temp |-> FALSE, has_hum |-> FALSE, has_batt |-> FALSE,
     has_light |-> FALSE, has_motion |-> FALSE, has_contact |-> FALSE,
     contact_type |-> 0, motion_type |-> 0,
     temperature |-> 0, humidity |-> 0, battery |-> 0, lux |-> 0,
     motion |-> FALSE, contact |-> FALSE,
     aid |-> 0, chars |-> {}]

device_count == Len(devices)

\* the six capability flags of a record
Caps(d) == <<d.has_temp, d.has_hum, d.has_batt, d.has_light, d.has_motion,
             d.has_contact>>

\* the persisted part of a record
Persisted(d) == [id |-> d.id, name |-> d.name, caps |-> Caps(d),
                 contact_type |-> d.contact_type, motion_type |-> d.motion_type]

\* a lookup that does not test the active flag
findDevice_IgnoresActive(devs, id) ==
    LET hits == {i \in 1..Len(devs) : StrEq(devs[i].id, id)}
    IN  IF hits = {} THEN 0 ELSE CHOOSE i \in hits : \A j \in hits : i <= j

\* findDevice: index of the first active record with that id, 0 for nullptr
findDevice(devs, id) ==
    LET hits == {i \in 1..Len(devs) : devs[i].active /\ StrEq(devs[i].id, id)}
    IN  IF hits = {} THEN 0 ELSE CHOOSE i \in hits : \A j \in hits : i <= j

getActiveDeviceCount(devs) == Cardinality({i \in 1..Len(devs) : devs[i].active})

\* the active records in registry order
ActiveSlots(devs) == {i \in 1..Len(devs) : devs[i].active}

RECURSIVE ActiveSeq(_)
ActiveSeq(devs) ==
    IF devs = <<>> THEN <<>>
    ELSE IF devs[1].active THEN <<devs[1]>> \o ActiveSeq(Tail(devs))
    ELSE ActiveSeq(Tail(devs))

(***************************************************************************)
(* Persistence: the NVS store is a function from keys to values.  The key  *)
(* "dev<i>_<field>" is the pair <<i, field>>, "dev_count" is <<"dev_count">>. *)
(***************************************************************************)
DeviceFields == {"id", "name", "temp", "hum", "batt", "light", "motion",
                 "contact", "ctype", "mtype"}
CountKey == <<"dev_count">>
DevKey(i, f) == <<i, f>>

\* prefs.getX(key, default)
PrefGet(p, key, default) == IF key \in DOMAIN p THEN p[key] ELSE default

\* prefs.remove(key) for every key of keys
PrefRemove(p, keys) == [k \in (DOMAIN p) \ keys |-> p[k]]

\* prefs.putX(key, value) for every key of the function w
PrefPut(p, w) == [k \in (DOMAIN p) \cup (DOMAIN w) |->
                    IF k \in DOMAIN w THEN w[k] ELSE p[k]]

\* the ten keys written for the record d under index i
DeviceKeys(i, d) ==
    [k \in {DevKey(i, f) : f \in DeviceFields} |->
        CASE k[2] = "id" -> d.id
          [] k[2] = "name" -> d.name
          [] k[2] = "temp" -> d.has_temp
          [] k[2] = "hum" -> d.has_hum
          [] k[2] = "batt" -> d.has_batt
          [] k[2] = "light" -> d.has_light
          [] k[2] = "motion" -> d.has_motion
          [] k[2] = "contact" -> d.has_contact
          [] k[2] = "ctype" -> d.contact_type
          [] k[2] = "mtype" -> d.motion_type]

RECURSIVE WriteDevices(_, _, _)
WriteDevices(p, act, saveIndex) ==
    IF act = <<>> THEN p
    ELSE WriteDevices(PrefPut(p, DeviceKeys(saveIndex, act[1])), Tail(act),
                      saveIndex + 1)

\* saveDevices without the removal of the keys of the previous snapshot
saveDevices_KeepsOldKeys(p, devs) ==
    LET act == ActiveSeq(devs)
    IN  PrefPut(WriteDevices(p, act, 0), CountKey :> Len(act))

saveDevices(p, devs) ==
    LET oldCount == PrefGet(p, CountKey, 0)
        cleared == PrefRemove(p, {DevKey(i, f) : i \in 0..(oldCount - 1),
                                                f \in DeviceFields})
        act == ActiveSeq(devs)
        written == WriteDevices(cleared, act, 0)
    IN  PrefPut(written, CountKey :> Len(act))

\* one iteration of loadDevices' loop: the record stored under index i, or
\* nothing when the stored id is empty
LoadOne(p, i) ==
    LET id == PrefGet(p, DevKey(i, "id"), EmptyStr)
    IN  IF Len(id) = 0 THEN <<>>
        ELSE <<[ZeroDevice EXCEPT
                 !.id = StrNCpy(id, ID_SIZE),
                 !.name = StrNCpy(PrefGet(p, DevKey(i, "name"), id), ID_SIZE),
                 !.active = TRUE,
                 !.has_temp = PrefGet(p, DevKey(i, "temp"), FALSE),
                 !.has_hum = PrefGet(p, DevKey(i, "hum"), FALSE),
                 !.has_batt = PrefGet(p, DevKey(i, "batt"), FALSE),
                 !.has_light = PrefGet(p, DevKey(i, "light"), FALSE),
                 !.has_motion = PrefGet(p, DevKey(i, "motion"), FALSE),
                 !.has_contact = PrefGet(p, DevKey(i, "contact"), FALSE),
                 !.contact_type = PrefGet(p, DevKey(i, "ctype"), 0),
                 !.motion_type = PrefGet(p, DevKey(i, "mtype"), 0)]>>

RECURSIVE LoadFrom(_, _, _)
LoadFrom(p, i, n) ==
    IF i >= n THEN <<>> ELSE LoadOne(p, i) \o LoadFrom(p, i + 1, n)

\* loadDevices if it examined as many entries as the stored count says
loadDevices_Uncapped(p) == LoadFrom(p, 0, PrefGet(p, CountKey, 0))

\* loadDevices if it stopped at the first entry without an id
loadDevices_StopsAtEmpty(p) ==
    LET n == Min(PrefGet(p, CountKey, 0), MAX_DEVICES)
        empty == {i \in 0..(n - 1) : Len(PrefGet(p, DevKey(i, "id"), EmptyStr)) = 0}
    IN  LoadFrom(p, 0, IF empty = {} THEN n
                       ELSE CHOOSE i \in empty : \A j \in empty : i <= j)

\* loadDevices into an empty registry (device_count = 0 after boot)
loadDevices(p) ==
    LoadFrom(p, 0, Min(PrefGet(p, CountKey, 0), MAX_DEVICES))

(***************************************************************************)
(* The accessory runtime (HomeSpan).  The database is the list of live     *)
(* accessories in creation order; a new accessory takes the identity after *)
(* the one of the last accessory of the list, the first one takes 1.       *)
(***************************************************************************)
NextAid(accs) == IF accs = <<>> THEN 1 ELSE accs[Len(accs)].aid + 1

\* new SpanAccessory() followed by the services created for it
NewSpanAccessory(accs, kind, slot, name, services) ==
    Append(accs, [aid |-> NextAid(accs), kind |-> kind, dev |-> slot,
                  name |-> name, services |-> services])

\* homeSpan.deleteAccessory(aid)
DeleteAccessory(accs, aid) ==
    LET Keep(a) == a.aid # aid IN SelectSeq(accs, Keep)

LiveAids(accs) == {accs[k].aid : k \in 1..Len(accs)}

\* the bridge accessory created by setupHomeKit
BridgeOnly == NewSpanAccessory(<<>>, "bridge", 0, <<"LoRa Bridge">>, {})

\* the motion service class selected by the switch over motion_type
MotionService(type) ==
    CASE type = MOTION_TYPE_OCCUPANCY -> "OccupancySensorMotion"
      [] type = MOTION_TYPE_LEAK -> "LeakSensorMotion"
      [] type = MOTION_TYPE_SMOKE -> "SmokeSensorMotion"
      [] type = MOTION_TYPE_CO -> "COSensorMotion"
      [] OTHER -> "MotionSensorService"

\* the contact service class selected by the switch over contact_type
ContactService(type) ==
    CASE type = CONTACT_TYPE_LEAK -> "LeakSensorService"
      [] type = CONTACT_TYPE_SMOKE -> "SmokeSensorService"
      [] type = CONTACT_TYPE_CO -> "COSensorService"
      [] type = CONTACT_TYPE_OCCUPANCY -> "OccupancySensorContact"
      [] OTHER -> "ContactSensorService"

\* the services createHomekitAccessory attaches for the record d
ServicesOf(d) ==
    (IF d.has_temp THEN {"TempSensor"} ELSE {}) \cup
    (IF d.has_hum THEN {"HumSensor"} ELSE {}) \cup
    (IF d.has_batt THEN {"BatteryService"} ELSE {}) \cup
    (IF d.has_light THEN {"LightSensor"} ELSE {}) \cup
    (IF d.has_motion THEN {MotionService(d.motion_type)} ELSE {}) \cup
    (IF d.has_contact THEN {ContactService(d.contact_type)} ELSE {})

\* the characteristic pointers the service constructors store in the record
CharsOf(d) ==
    LET cs == (IF d.has_temp THEN {"tempChar"} ELSE {}) \cup
              (IF d.has_hum THEN {"humChar"} ELSE {}) \cup
              (IF d.has_batt THEN {"battChar"} ELSE {}) \cup
              (IF d.has_light THEN {"lightChar"} ELSE {}) \cup
              (IF d.has_motion THEN {"motionChar"} ELSE {}) \cup
              (IF d.has_contact THEN {"contactChar"} ELSE {})
    IN  IF cs = {} THEN {} ELSE cs \cup {"nameChar"}

(***************************************************************************)
(* The program state as one record, so that handlers compose.              *)
(***************************************************************************)
Cur == [devices |-> devices, accessories |-> accessories,
        homekit_started |-> homekit_started, prefs |-> prefs,
        activityLog |-> activityLog, activityLogCount |-> activityLogCount,
        activityLogIndex |-> activityLogIndex,
        packets_received |-> packets_received,
        last_packet_time |-> last_packet_time, last_event |-> last_event,
        mqtt_connected |-> mqtt_connected, retained |-> retained,
        lastDiagnosticsPublish |-> lastDiagnosticsPublish,
        homekit_code |-> homekit_code, testCounter |-> testCounter,
        calls |-> <<>>, rt |-> <<>>, pubs |-> <<>>]

\* The calls a handler makes are recorded in the order it makes them: the
\* function, the record it returned or was given (0 for nullptr), and the
\* document and signal strength it was given.
Call(fn, dev, doc, rssi) == [fn |-> fn, dev |-> dev, doc |-> doc, rssi |-> rssi]

\* The calls into the accessory runtime are recorded too: the call, the
\* identity it deleted or allocated, and the live accessories it left.
RtCall(fn, aid, accs) == [fn |-> fn, aid |-> aid, live |-> accs]

\* the identity of the accessory created last
LastAid(accs) == IF accs = <<>> THEN 0 ELSE accs[Len(accs)].aid

\* homeSpan.deleteAccessory(aid); homeSpan.updateDatabase()
deleteAccessory(S, aid) ==
    LET accs == DeleteAccessory(S.accessories, aid)
    IN  [S EXCEPT !.accessories = accs,
                  !.rt = Append(S.rt, RtCall("deleteAccessory", aid, accs))]

\* createHomekitAccessory(&devices[i])
createHomekitAccessory(S, i) ==
    IF ~S.homekit_started THEN S
    ELSE LET d == S.devices[i]
             accs == NewSpanAccessory(S.accessories, "device", i, d.name,
                                      ServicesOf(d))
         IN  [S EXCEPT !.accessories = accs,
                       !.devices[i].aid = accs[Len(accs)].aid,
                       !.devices[i].chars = CharsOf(d),
                       !.rt = Append(S.rt, RtCall("createHomekitAccessory",
                                                  LastAid(accs), accs))]

\* a clearing of the pointers that leaves the handle in the record
ClearPointers_KeepsHandle(d) == [d EXCEPT !.chars = {}]

\* the pointers cleared by removeDevice, renameDevice and handleSetSensorType
ClearPointers(d) == [d EXCEPT !.aid = 0, !.chars = {}]

(***************************************************************************)
(* The message bus.  Only retained documents are kept: the discovery       *)
(* (config) document per capability and the availability of each device.   *)
(***************************************************************************)
ConfigTopic(deviceId, cap) == <<"config", deviceId, cap>>
AvailabilityTopic(deviceId) == <<"availability", deviceId>>
Capabilities == {"temperature", "humidity", "battery", "lux", "motion",
                 "contact", "rssi"}

\* The publications of a handler are recorded in the order it makes them:
\* what is published (bridge status, gateway discovery, device discovery,
\* removal, state, diagnostics), for which device id, and on which topics.
Pub(kind, deviceId, topics) == [kind |-> kind, dev |-> deviceId, topics |-> topics]

\* mqttClient.publish(topic, payload, retain) for every topic of the function w
Publish(r, w) == [k \in (DOMAIN r) \cup (DOMAIN w) |->
                    IF k \in DOMAIN w THEN w[k] ELSE r[k]]

\* the capabilities publishHomeAssistantDiscovery publishes a document for
DiscoveryCaps(d) ==
    (IF d.has_temp THEN {"temperature"} ELSE {}) \cup
    (IF d.has_hum THEN {"humidity"} ELSE {}) \cup
    (IF d.has_batt THEN {"battery"} ELSE {}) \cup
    (IF d.has_light THEN {"lux"} ELSE {}) \cup
    (IF d.has_motion THEN {"motion"} ELSE {}) \cup
    (IF d.has_contact THEN {"contact"} ELSE {}) \cup {"rssi"}

\* the payload of a discovery document: the device name and, for contact,
\* the device class chosen from contact_type
DiscoveryPayload(d, deviceId, cap) ==
    [device |-> deviceId, name |-> d.name,
     class |-> IF cap = "contact"
               THEN (IF d.contact_type = 1 THEN "door" ELSE "window")
               ELSE cap]

publishHomeAssistantDiscovery(S, i, deviceId) ==
    IF ~mqtt_enabled \/ ~S.mqtt_connected THEN S
    ELSE LET d == S.devices[i]
             docs == [k \in {ConfigTopic(deviceId, c) : c \in DiscoveryCaps(d)}
                        |-> <<DiscoveryPayload(d, deviceId, k[3])>>]
             avail == AvailabilityTopic(deviceId) :> "online"
         IN  [S EXCEPT !.retained = Publish(Publish(S.retained, docs), avail),
                       !.pubs = Append(S.pubs, Pub("discovery", deviceId,
                                                   DOMAIN docs \cup DOMAIN avail))]

removeDeviceFromMQTT(S, deviceId) ==
    IF ~mqtt_enabled \/ ~S.mqtt_connected THEN S
    ELSE LET docs == [k \in {ConfigTopic(deviceId, c) : c \in Capabilities}
                        |-> <<>>]
             avail == AvailabilityTopic(deviceId) :> "offline"
         IN  [S EXCEPT !.retained = Publish(Publish(S.retained, docs), avail),
                       !.pubs = Append(S.pubs, Pub("removal", deviceId,
                                                   DOMAIN docs \cup DOMAIN avail))]

(***************************************************************************)
(* The activity log.                                                       *)
(***************************************************************************)
ZeroEntry == [timestamp |-> 0, device_name |-> EmptyStr, message |-> <<>>]

\* logActivity if it overwrote the newest entry of a full log
logActivity_OverwritesNewest(S, deviceName, message) ==
    LET full == S.activityLogCount >= MAX_ACTIVITY_LOG
        at == IF full THEN (S.activityLogIndex + MAX_ACTIVITY_LOG - 1) % MAX_ACTIVITY_LOG
              ELSE S.activityLogIndex
    IN  [S EXCEPT
           !.activityLog[at] =
               [timestamp |-> now, device_name |-> deviceName, message |-> message],
           !.activityLogIndex = IF full THEN S.activityLogIndex
                                ELSE (S.activityLogIndex + 1) % MAX_ACTIVITY_LOG,
           !.activityLogCount = IF full THEN S.activityLogCount
                                ELSE S.activityLogCount + 1]

logActivity(S, deviceName, message) ==
    [S EXCEPT
       !.activityLog[S.activityLogIndex] =
           [timestamp |-> now, device_name |-> deviceName, message |-> message],
       !.activityLogIndex = (S.activityLogIndex + 1) % MAX_ACTIVITY_LOG,
       !.activityLogCount = IF S.activityLogCount < MAX_ACTIVITY_LOG
                            THEN S.activityLogCount + 1
                            ELSE S.activityLogCount]

\* handleClearActivity (the entries stay in the array)
handleClearActivity(S) ==
    [S EXCEPT !.activityLogCount = 0, !.activityLogIndex = 0]

StateTopic(deviceId, cap) == <<"state", deviceId, cap>>

\* doc[key].as<bool>() of the JSON library: a boolean as it is, a number
\* when non-zero, any string true
AsBool(v) ==
    IF v.kind = "bool" THEN v.val
    ELSE IF v.kind = "num" THEN v.val # 0
    ELSE TRUE

\* publishDeviceData(dev, doc, rssi)
publishDeviceData(S, i, doc, rssi) ==
    IF ~mqtt_enabled \/ ~S.mqtt_connected THEN S
    ELSE LET d == S.devices[i]
             caps ==
                 (IF containsKey(doc, "t") /\ d.has_temp THEN {"temperature"} ELSE {}) \cup
                 (IF containsKey(doc, "hu") /\ d.has_hum THEN {"humidity"} ELSE {}) \cup
                 (IF containsKey(doc, "b") /\ d.has_batt THEN {"battery"} ELSE {}) \cup
                 (IF containsKey(doc, "lux") /\ d.has_light THEN {"lux"} ELSE {}) \cup
                 (IF containsKey(doc, "m") /\ d.has_motion THEN {"motion"} ELSE {}) \cup
                 (IF containsKey(doc, "c") /\ d.has_contact THEN {"contact"} ELSE {}) \cup
                 {"rssi"}
             Value(cap) ==
                 CASE cap = "temperature" -> Num(AsNumber(doc["t"]))
                   [] cap = "humidity" -> Num(AsNumber(doc["hu"]))
                   [] cap = "battery" -> Num(AsNumber(doc["b"]))
                   [] cap = "lux" -> Num(AsNumber(doc["lux"]))
                   [] cap = "motion" -> Str(IF AsBool(doc["m"]) THEN "on" ELSE "off")
                   [] cap = "contact" -> Str(IF AsBool(doc["c"]) THEN "on" ELSE "off")
                   [] cap = "rssi" -> Num(rssi)
             docs == [k \in {StateTopic(d.id, c) : c \in caps} |-> Value(k[3])]
         IN  [S EXCEPT !.retained = Publish(S.retained, docs),
                       !.pubs = Append(S.pubs, Pub("state", d.id, DOMAIN docs))]

(***************************************************************************)
(* Device management.                                                      *)
(***************************************************************************)
\* registerDevice past its capacity check: the record in the next free
\* slot, its accessory, the saved snapshot and the discovery documents
createRecord(S, id, doc) ==
    LET i == Len(S.devices) + 1
        d == [ZeroDevice EXCEPT
                !.id = StrNCpy(id, ID_SIZE),
                !.name = StrNCpy(id, ID_SIZE),
                !.active = TRUE,
                !.has_temp = containsKey(doc, "t"),
                !.has_hum = containsKey(doc, "hu"),
                !.has_batt = containsKey(doc, "b"),
                !.has_light = containsKey(doc, "l"),
                !.has_motion = containsKey(doc, "m"),
                !.has_contact = containsKey(doc, "c")]
        S1 == [S EXCEPT !.devices = Append(S.devices, d),
                        !.last_event = [kind |-> "New: ", text |-> <<Str(id)>>],
                        !.calls = Append(S.calls,
                                         Call("registerDevice", i, doc, 0))]
        S2 == createHomekitAccessory(S1, i)
        S3 == [S2 EXCEPT !.prefs = saveDevices(S2.prefs, S2.devices)]
        S4 == IF mqtt_enabled
              THEN publishHomeAssistantDiscovery(S3, i, id)
              ELSE S3
    IN  [S |-> S4, dev |-> i]

\* registerDevice if it counted the active records only
registerDevice_CountsActive(S, id, doc) ==
    IF getActiveDeviceCount(S.devices) >= MAX_DEVICES
    THEN [S |-> [S EXCEPT !.last_event = [kind |-> "ERR: Max devices!",
                                          text |-> <<>>],
                          !.calls = Append(S.calls,
                                           Call("registerDevice", 0, doc, 0))],
          dev |-> 0]
    ELSE createRecord(S, id, doc)

\* registerDevice without its capacity check
registerDevice_NoCapacityCheck(S, id, doc) == createRecord(S, id, doc)

\* registerDevice(id, doc): the new state and the slot of the new record
\* (0 for nullptr)
registerDevice(S, id, doc) ==
    IF Len(S.devices) >= MAX_DEVICES
    THEN [S |-> [S EXCEPT !.last_event = [kind |-> "ERR: Max devices!",
                                          text |-> <<>>],
                          !.calls = Append(S.calls,
                                           Call("registerDevice", 0, doc, 0))],
          dev |-> 0]
    ELSE createRecord(S, id, doc)

\* updateDevice if it took a field of a later message as a new capability
ApplyReadings_LearnsCapabilities(d0, doc, rssi) ==
    LET d1 == [d0 EXCEPT !.rssi = rssi, !.last_seen = now]
        d2 == IF containsKey(doc, "t")
              THEN [d1 EXCEPT !.temperature = AsNumber(doc["t"]),
                              !.has_temp = TRUE] ELSE d1
        d3 == IF containsKey(doc, "hu")
              THEN [d2 EXCEPT !.humidity = AsNumber(doc["hu"]),
                              !.has_hum = TRUE] ELSE d2
        d4 == IF containsKey(doc, "b")
              THEN [d3 EXCEPT !.battery = AsNumber(doc["b"]),
                              !.has_batt = TRUE] ELSE d3
        d5 == IF containsKey(doc, "l")
              THEN [d4 EXCEPT !.lux = AsNumber(doc["l"]),
                              !.has_light = TRUE] ELSE d4
        d6 == IF containsKey(doc, "m")
              THEN [d5 EXCEPT !.motion = AsFlag(doc["m"]),
                              !.has_motion = TRUE] ELSE d5
    IN  IF containsKey(doc, "c")
        THEN [d6 EXCEPT !.contact = AsFlag(doc["c"]),
                        !.has_contact = TRUE] ELSE d6

\* the record after updateDevice's assignments: rssi, last_seen and the
\* reading of every key the document contains
ApplyReadings(d0, doc, rssi) ==
    LET d1 == [d0 EXCEPT !.rssi = rssi, !.last_seen = now]
        d2 == IF containsKey(doc, "t")
              THEN [d1 EXCEPT !.temperature = AsNumber(doc["t"])] ELSE d1
        d3 == IF containsKey(doc, "hu")
              THEN [d2 EXCEPT !.humidity = AsNumber(doc["hu"])] ELSE d2
        d4 == IF containsKey(doc, "b")
              THEN [d3 EXCEPT !.battery = AsNumber(doc["b"])] ELSE d3
        d5 == IF containsKey(doc, "l")
              THEN [d4 EXCEPT !.lux = AsNumber(doc["l"])] ELSE d4
        d6 == IF containsKey(doc, "m")
              THEN [d5 EXCEPT !.motion = AsFlag(doc["m"])] ELSE d5
    IN  IF containsKey(doc, "c")
        THEN [d6 EXCEPT !.contact = AsFlag(doc["c"])] ELSE d6

\* updateDevice(&devices[i], doc, rssi)
updateDevice(S, i, doc, rssi) ==
    LET d0 == S.devices[i]
        d7 == ApplyReadings(d0, doc, rssi)
        eventStr ==
            <<Str(d0.id)>> \o
            (IF containsKey(doc, "t") THEN <<Num(d7.temperature), Str("C ")>> ELSE <<>>) \o
            (IF containsKey(doc, "hu") THEN <<Num(d7.humidity), Str("% ")>> ELSE <<>>) \o
            (IF containsKey(doc, "m") /\ d7.motion THEN <<Str("MOT ")>> ELSE <<>>)
        S1 == [S EXCEPT !.devices[i] = d7,
                        !.last_event = [kind |-> "", text |-> eventStr],
                        !.calls = Append(S.calls,
                                         Call("updateDevice", i, doc, rssi))]
        S2 == logActivity(S1, d7.name, doc)
    IN  IF mqtt_enabled THEN publishDeviceData(S2, i, doc, rssi) ELSE S2

\* removeDevice(id): the new state and the returned boolean
removeDevice(S, id) ==
    LET i == findDevice(S.devices, id)
    IN  IF i = 0 THEN [S |-> S, res |-> FALSE]
        ELSE LET d == S.devices[i]
                 S1 == IF d.aid > 0 /\ S.homekit_started
                       THEN deleteAccessory(S, d.aid)
                       ELSE S
                 S2 == IF mqtt_enabled THEN removeDeviceFromMQTT(S1, id) ELSE S1
                 S3 == [S2 EXCEPT !.devices[i] =
                                     [ClearPointers(d) EXCEPT !.active = FALSE]]
             IN  [S |-> [S3 EXCEPT !.prefs = saveDevices(S3.prefs, S3.devices)],
                  res |-> TRUE]

\* a rebind that leaves the old identity in the database
deleteOldIdentity_Skipped(S, i) == S

\* step 1 of a rebind: homeSpan.deleteAccessory(dev->aid)
deleteOldIdentity(S, i) == deleteAccessory(S, S.devices[i].aid)

\* a rebind that allocates no spacer
allocateSpacer_Skipped(S) == S

\* step 2 of a rebind: SpanAccessory* spacer = new SpanAccessory()
allocateSpacer(S) ==
    LET accs == NewSpanAccessory(S.accessories, "spacer", 0, EmptyStr, {})
    IN  [S EXCEPT !.accessories = accs,
                  !.rt = Append(S.rt, RtCall("new SpanAccessory", LastAid(accs),
                                             accs))]

\* a rename that stores the new name as the id too
RenamedRecord_RenamesId(d, newName) ==
    [ClearPointers(d) EXCEPT !.name = StrNCpy(newName, ID_SIZE),
                             !.id = StrNCpy(newName, ID_SIZE)]

\* the record renameDevice recreates the accessory for: the pointers
\* cleared, the new name copied into name
RenamedRecord(d, newName) ==
    [ClearPointers(d) EXCEPT !.name = StrNCpy(newName, ID_SIZE)]

\* the states renameDevice passes through for the record in slot i, one
\* after each step: the old identity deleted, the spacer allocated, the
\* accessory recreated (pointers cleared and name set before it), the spacer
\* deleted
renameSteps(S, i, newName) ==
    LET d == S.devices[i]
        bound == d.aid > 0 /\ S.homekit_started
        A == IF bound THEN deleteOldIdentity(S, i) ELSE S
        B == IF bound THEN allocateSpacer(A) ELSE A
        spacerAid == IF bound THEN LastAid(B.accessories) ELSE 0
        B1 == [B EXCEPT !.devices[i] = RenamedRecord(B.devices[i], newName)]
        C == IF S.homekit_started THEN createHomekitAccessory(B1, i) ELSE B1
        D == IF S.homekit_started /\ spacerAid > 0
             THEN deleteAccessory(C, spacerAid) ELSE C
    IN  <<A, B, C, D>>

\* renameDevice(id, newName): the new state and the returned boolean
renameDevice(S, id, newName) ==
    LET i == findDevice(S.devices, id)
    IN  IF i = 0 THEN [S |-> S, res |-> FALSE]
        ELSE LET S3 == renameSteps(S, i, newName)[4]
             IN  [S |-> [S3 EXCEPT !.prefs = saveDevices(S3.prefs, S3.devices)],
                  res |-> TRUE]

\* typeStr.toInt() stored in a uint8_t
ToUint8(n) == n % 256

\* an assignment that sets both type overrides
SetType_BothOverrides(d, isContact, newType) ==
    [d EXCEPT !.contact_type = newType, !.motion_type = newType]

\* the assignment of handleSetSensorType: contact_type for the contact
\* branch, motion_type for the motion branch
SetType(d, isContact, newType) ==
    IF isContact THEN [d EXCEPT !.contact_type = newType]
    ELSE [d EXCEPT !.motion_type = newType]

\* the branch handleSetSensorType takes for the record d
IsContact(d, sensor) == sensor = "contact" /\ d.has_contact
IsMotion(d, sensor) == ~IsContact(d, sensor) /\ sensor = "motion" /\ d.has_motion
TypeChanged(d, sensor, newType) ==
    \/ IsContact(d, sensor) /\ d.contact_type # newType
    \/ IsMotion(d, sensor) /\ d.motion_type # newType

\* a retype that saved the snapshot before it assigned the type
retypeSaved_SavesFirst(S, i, sensor, newType) ==
    [S EXCEPT !.devices[i] = SetType(S.devices[i],
                                     IsContact(S.devices[i], sensor), newType),
              !.prefs = saveDevices(S.prefs, S.devices)]

\* handleSetSensorType after a change of the type of the record in slot i:
\* the type assigned and the snapshot saved
retypeSaved(S, i, sensor, newType) ==
    LET d1 == SetType(S.devices[i], IsContact(S.devices[i], sensor), newType)
    IN  [S EXCEPT !.devices[i] = d1,
                  !.prefs = saveDevices(S.prefs, [S.devices EXCEPT ![i] = d1])]

\* the states the rebind of handleSetSensorType passes through for the bound
\* record in slot i, one after each step
retypeSteps(S1, i) ==
    LET A == deleteOldIdentity(S1, i)
        B == allocateSpacer(A)
        spacerAid == LastAid(B.accessories)
        B1 == [B EXCEPT !.devices[i] = ClearPointers(B.devices[i])]
        C == createHomekitAccessory(B1, i)
        D == deleteAccessory(C, spacerAid)
    IN  <<A, B, C, D>>

\* handleSetSensorType: the new state and the response
handleSetSensorType(S, id, sensor, typeArg) ==
    LET i == findDevice(S.devices, id)
        newType == ToUint8(typeArg)
    IN  IF Len(id) = 0 \/ sensor = ""
        THEN [S |-> S, res |-> "Missing parameters"]
        ELSE IF i = 0 THEN [S |-> S, res |-> "Device not found"]
        ELSE LET d == S.devices[i]
                 S1 == retypeSaved(S, i, sensor, newType)
                 bound == S1.devices[i].aid > 0 /\ S.homekit_started
             IN  IF ~IsContact(d, sensor) /\ ~IsMotion(d, sensor)
                 THEN [S |-> S, res |-> "Invalid sensor type"]
                 ELSE IF ~TypeChanged(d, sensor, newType)
                 THEN [S |-> S, res |-> "No change needed"]
                 ELSE IF bound THEN [S |-> retypeSteps(S1, i)[4], res |-> "Changed"]
                 ELSE [S |-> S1, res |-> "Changed"]

\* handleRenameDevice: the request checks, then renameDevice
handleRenameDevice(S, id, newName) ==
    IF Len(id) = 0 \/ Len(newName) = 0
    THEN [S |-> S, res |-> "Missing id or name parameter"]
    ELSE LET r == renameDevice(S, id, newName)
         IN  [S |-> r.S, res |-> IF r.res THEN "Renamed" ELSE "Device not found"]

\* handleRemoveDevice: the request check, then removeDevice
handleRemoveDevice(S, id) ==
    IF Len(id) = 0
    THEN [S |-> S, res |-> "Missing id parameter"]
    ELSE LET r == removeDevice(S, id)
         IN  [S |-> r.S, res |-> IF r.res THEN "Device removed" ELSE "Device not found"]

(***************************************************************************)
(* Test devices.  The id of a test device is "Test_<type>_<n>", n the      *)
(* number of the request; an id is one character here, so the id of        *)
(* request n is the single character TestNames[n], and these characters    *)
(* are the ids that begin with "Test_".                                    *)
(***************************************************************************)
TestNames == <<"Test_1", "Test_2", "Test_3", "Test_4", "Test_5", "Test_6">>

(***************************************************************************)
(* Packet ingestion.  A packet is the decrypted payload: whether it parses *)
(* as JSON, the parsed document and the RSSI it was received with.         *)
(***************************************************************************)
Event(text) == [kind |-> text, text |-> <<>>]

\* strcmp(doc["k"], gateway_key) == 0.  The conversion of doc["k"] to a
\* const char* is a null pointer when the value is not a string; the outcome
\* of comparing it is chosen by the action below.
KeyMatches(v) == v.kind = "str" /\ StrEq(v.val, GATEWAY_KEY)

\* the packets for which strcmp is handed a null pointer
NullKey(pkt) == pkt.ok /\ containsKey(pkt.doc, "k") /\ pkt.doc["k"].kind # "str"

\* the lookup without the registration of an unknown id
findOrRegister_NoRegister(S, id, doc) ==
    [S |-> S, dev |-> findDevice(S.devices, id)]

\* findDevice(id) and, for nullptr, registerDevice(id, doc): the new state
\* and the record (0 for nullptr)
findOrRegister(S, id, doc) ==
    LET found == findDevice(S.devices, id)
    IN  IF found = 0 THEN registerDevice(S, id, doc)
        ELSE [S |-> S, dev |-> found]

\* processLoRaPacket for a received packet: the new state, how the packet
\* ended and the record it was applied to (0 for none)
processLoRaPacket(S, pkt) ==
    LET doc == pkt.doc IN
    IF ~pkt.ok
    THEN [S |-> [S EXCEPT !.last_event = Event("ERR: Bad JSON")],
          res |-> "ParseError", dev |-> 0]
    ELSE IF ~containsKey(doc, "k") \/ ~KeyMatches(doc["k"])
    THEN [S |-> [S EXCEPT !.last_event = Event("ERR: Wrong key")],
          res |-> "AuthError", dev |-> 0]
    ELSE IF ~containsKey(doc, "id")
    THEN [S |-> [S EXCEPT !.last_event = Event("ERR: No device ID")],
          res |-> "MissingFieldError", dev |-> 0]
    ELSE LET id == doc["id"].val
             S1 == [S EXCEPT !.packets_received = S.packets_received + 1,
                             !.last_packet_time = now]
             found == findDevice(S1.devices, id)
             reg == findOrRegister(S1, id, doc)
         IN  IF reg.dev # 0
             THEN [S |-> updateDevice(reg.S, reg.dev, doc, pkt.rssi),
                   res |-> IF found = 0 THEN "created" ELSE "updated",
                   dev |-> reg.dev]
             ELSE [S |-> reg.S, res |-> "CapacityExceeded", dev |-> 0]

(***************************************************************************)
(* handleTestDevice: a request of the web interface that creates a test    *)
(* device as a packet would, or ("update") gives new readings to the test  *)
(* devices; rnd is the number random() returns.                            *)
(***************************************************************************)
\* the loop of the "update" branch from slot i on: updateDevice for every
\* slot below device_count whose id begins with "Test_"
RECURSIVE UpdateTests(_, _, _)
UpdateTests(S, i, rnd) ==
    IF i > Len(S.devices) THEN S
    ELSE LET d == S.devices[i]
             updateDoc ==
                 ("id" :> Str(d.id)) @@ ("b" :> Num(d.battery)) @@
                 (IF d.has_temp THEN "t" :> Num(200 + rnd) ELSE <<>>) @@
                 (IF d.has_hum THEN "hu" :> Num(40 + rnd) ELSE <<>>) @@
                 (IF d.has_light THEN "l" :> Num(100 + rnd) ELSE <<>>) @@
                 (IF d.has_motion
                  THEN "m" :> Num(IF ~d.motion THEN 1 ELSE 0) ELSE <<>>) @@
                 (IF d.has_contact
                  THEN "c" :> Num(IF ~d.contact THEN 1 ELSE 0) ELSE <<>>)
         IN  UpdateTests(IF d.id # EmptyStr /\
                            \E n \in 1..Len(TestNames) : d.id[1] = TestNames[n]
                         THEN updateDevice(S, i, updateDoc, 0 - 50)
                         ELSE S,
                         i + 1, rnd)

\* handleTestDevice with the argument type: the new state, the response
\* and the record created (0 for none)
handleTestDevice(S, type, rnd) ==
    LET n == S.testCounter + 1
        deviceId == <<TestNames[n]>>
        S0 == [S EXCEPT !.testCounter = n]
        doc == ("k" :> Str(GATEWAY_KEY)) @@ ("id" :> Str(deviceId)) @@
               (IF type = "temp" THEN ("t" :> Num(225 + rnd)) @@ ("b" :> Num(85))
                ELSE ("m" :> Bool(TRUE)) @@ ("b" :> Num(100)))
        reg == findOrRegister(S0, deviceId, doc)
        S1 == updateDevice(reg.S, reg.dev, doc, 0 - 50)
    IN  IF type = "update"
        THEN [S |-> UpdateTests(S0, 1, rnd), res |-> "Updated", dev |-> 0]
        ELSE IF type \notin {"temp", "motion"}
        THEN [S |-> S0, res |-> "Unknown test type", dev |-> 0]
        ELSE IF reg.dev # 0
        THEN [S |-> [S1 EXCEPT !.packets_received = S1.packets_received + 1,
                               !.last_packet_time = now,
                               !.last_event = [kind |-> "Test: ",
                                               text |-> <<Str(deviceId)>>]],
              res |-> "Created", dev |-> reg.dev]
        ELSE [S |-> reg.S, res |-> "Failed to create device", dev |-> 0]

(***************************************************************************)
(* Payload cipher.  A buffer is a sequence of bytes; encrypt_key is an     *)
(* array of KEY_SIZE bytes of which the first encrypt_key_len are the key. *)
(***************************************************************************)
ENCRYPT_NONE == 0
ENCRYPT_XOR == 1
ENCRYPT_AES == 2
DEFAULT_ENCRYPT_KEY == <<75, 163, 63, 156>>
ENCRYPT_KEY_LEN == 4
KEY_SIZE == 16
AES_BLOCK == 16

\* uint8_t encrypt_key[16] = {...}: the given bytes, then zeros
KeyArray(bytes) ==
    [i \in 1..KEY_SIZE |-> IF i <= Len(bytes) THEN bytes[i] ELSE 0]

\* a ^ b on unsigned integers
RECURSIVE BitXor(_, _)
BitXor(a, b) ==
    IF a = 0 THEN b
    ELSE IF b = 0 THEN a
    ELSE ((a + b) % 2) + 2 * BitXor(a \div 2, b \div 2)

\* xorBuffer if it added the key byte instead
xorBuffer_Adds(c, data) ==
    IF c.key_len = 0 THEN data
    ELSE [i \in 1..Len(data) |->
              (data[i] + c.key[((i - 1) % c.key_len) + 1]) % 256]

\* xorBuffer(data, len) under the settings c
xorBuffer(c, data) ==
    IF c.key_len = 0 THEN data
    ELSE [i \in 1..Len(data) |->
              BitXor(data[i], c.key[((i - 1) % c.key_len) + 1])]

\* mbedtls_aes_crypt_ecb(MBEDTLS_AES_DECRYPT) on one block: the library's
\* AES is not part of the program; it is represented by a key-dependent
\* permutation of the blocks that leaves no block as it was
AesDecryptBlock(key, block) ==
    [i \in 1..AES_BLOCK |->
         (block[AES_BLOCK + 1 - i] + key[i] + (IF 2 * i = AES_BLOCK THEN 1 ELSE 0))
             % 256]

\* the 16-byte key of aesDecrypt: encrypt_key padded with zeros or truncated
AesKey(c) ==
    [i \in 1..AES_BLOCK |-> IF i <= Min(c.key_len, AES_BLOCK) THEN c.key[i] ELSE 0]

\* the result of decrypting the first blocks whole blocks of data in place
DecryptBlocks(c, data, blocks) ==
    [i \in 1..Len(data) |->
         IF i <= blocks * AES_BLOCK
         THEN LET b == (i - 1) \div AES_BLOCK
              IN  AesDecryptBlock(AesKey(c),
                      [j \in 1..AES_BLOCK |->
                           IF b * AES_BLOCK + j <= Len(data)
                           THEN data[b * AES_BLOCK + j] ELSE 0])
                                 [((i - 1) % AES_BLOCK) + 1]
         ELSE data[i]]

\* aesDecrypt if it rounded the number of blocks up
aesDecrypt_RoundsUp(c, data) ==
    IF c.key_len = 0 \/ Len(data) = 0 THEN data
    ELSE DecryptBlocks(c, data, (Len(data) + AES_BLOCK - 1) \div AES_BLOCK)

\* aesDecrypt(data, len) under the settings c
aesDecrypt(c, data) ==
    IF c.key_len = 0 \/ Len(data) = 0 THEN data
    ELSE DecryptBlocks(c, data, Len(data) \div AES_BLOCK)

\* decryptBuffer(data, len) under the settings c
decryptBuffer(c, data) ==
    IF c.mode = ENCRYPT_XOR THEN xorBuffer(c, data)
    ELSE IF c.mode = ENCRYPT_AES THEN aesDecrypt(c, data)
    ELSE data

(***************************************************************************)
(* Message-bus session.                                                    *)
(***************************************************************************)
BridgeStatusTopic == <<"bridge", "status">>
BridgeDiagnosticsTopic == <<"bridge", "diagnostics">>
GatewayConfigTopic == <<"gateway", "config">>

RECURSIVE PublishAllDiscovery(_, _)
PublishAllDiscovery(S, i) ==
    IF i > Len(S.devices) THEN S
    ELSE PublishAllDiscovery(
             IF S.devices[i].active
             THEN publishHomeAssistantDiscovery(S, i, S.devices[i].id)
             ELSE S,
             i + 1)

\* publishBridgeDiagnostics
publishBridgeDiagnostics(S) ==
    IF ~mqtt_enabled \/ ~S.mqtt_connected THEN S
    ELSE [S EXCEPT
            !.retained = Publish(S.retained,
                BridgeDiagnosticsTopic :>
                    [packets_received |-> S.packets_received,
                     active_devices |-> getActiveDeviceCount(S.devices),
                     uptime |-> now]),
            !.lastDiagnosticsPublish = now,
            !.pubs = Append(S.pubs, Pub("diagnostics", EmptyStr,
                                        {BridgeDiagnosticsTopic}))]

\* connectMQTT if it announced the devices before the bridge
connectMQTT_DevicesFirst(S, connected) ==
    IF ~mqtt_enabled \/ ~connected THEN S
    ELSE LET S1 == PublishAllDiscovery([S EXCEPT !.mqtt_connected = TRUE], 1)
             S2 == [S1 EXCEPT !.retained =
                       Publish(Publish(S1.retained, BridgeStatusTopic :> "online"),
                               GatewayConfigTopic :> "gateway"),
                       !.pubs = S1.pubs \o
                                <<Pub("status", EmptyStr, {BridgeStatusTopic}),
                                  Pub("gateway", EmptyStr, {GatewayConfigTopic})>>]
         IN  publishBridgeDiagnostics(S2)

\* connectMQTT when the broker accepts (connected) or refuses the connection
connectMQTT(S, connected) ==
    IF ~mqtt_enabled \/ ~connected THEN S
    ELSE LET S1 == [S EXCEPT !.mqtt_connected = TRUE]
             S2 == [S1 EXCEPT !.retained =
                       Publish(Publish(S1.retained, BridgeStatusTopic :> "online"),
                               GatewayConfigTopic :> "gateway"),
                       !.pubs = S1.pubs \o
                                <<Pub("status", EmptyStr, {BridgeStatusTopic}),
                                  Pub("gateway", EmptyStr, {GatewayConfigTopic})>>]
         IN  publishBridgeDiagnostics(PublishAllDiscovery(S2, 1))

\* a callback that acts on the message: it removes the device the payload names
mqttCallback_RemovesDevice(S, topic, payload) == removeDevice(S, payload).S

\* mqttCallback(topic, payload, length): the message is printed on the
\* serial console; no topic is handled
mqttCallback(S, topic, payload) == S

\* the width of the clock and the length of a tick, in ms
Word == 2 ^ ClockBits
TickMs == 2 ^ TickBits

MQTT_RECONNECT_INTERVAL == 5000
DIAGNOSTICS_MIN_INTERVAL == 30000

\* a - b in unsigned long arithmetic
Elapsed(a, b) == (a - b + Word) % Word

\* publishBridgeDiagnosticsIfChanged
publishBridgeDiagnosticsIfChanged(S) ==
    IF ~mqtt_enabled \/ ~S.mqtt_connected THEN S
    ELSE IF Elapsed(now, S.lastDiagnosticsPublish) >= DIAGNOSTICS_MIN_INTERVAL
    THEN publishBridgeDiagnostics(S)
    ELSE S

\* reconnectMQTT without its throttle
reconnectMQTT_NoThrottle(S, last, connected) ==
    IF ~mqtt_enabled \/ S.mqtt_connected
    THEN [S |-> S, last |-> last, attempted |-> FALSE]
    ELSE [S |-> connectMQTT([S EXCEPT !.calls =
                                Append(S.calls, Call("connectMQTT", 0, <<>>, 0))],
                            connected),
          last |-> now, attempted |-> TRUE]

\* reconnectMQTT with lastMqttReconnect = last, when the broker would accept
\* (connected) or refuse a connection: the new state, the new
\* lastMqttReconnect and whether connectMQTT was called
reconnectMQTT(S, last, connected) ==
    IF ~mqtt_enabled \/ S.mqtt_connected
    THEN [S |-> S, last |-> last, attempted |-> FALSE]
    ELSE IF Elapsed(now, last) > MQTT_RECONNECT_INTERVAL
    THEN [S |-> connectMQTT([S EXCEPT !.calls =
                                Append(S.calls, Call("connectMQTT", 0, <<>>, 0))],
                            connected),
          last |-> now, attempted |-> TRUE]
    ELSE [S |-> S, last |-> last, attempted |-> FALSE]

\* loopMQTT (mqttClient.loop() of a connected client changes nothing here)
loopMQTT(S, last, connected) ==
    IF ~mqtt_enabled THEN [S |-> S, last |-> last, attempted |-> FALSE]
    ELSE IF ~S.mqtt_connected THEN reconnectMQTT(S, last, connected)
    ELSE [S |-> S, last |-> last, attempted |-> FALSE]

(***************************************************************************)
(* Settings: the pairing code.                                             *)
(***************************************************************************)
HkKey == <<"hk_code">>

\* random(10000000, 99999999): a number from the lower bound to one below
\* the upper bound; the smallest, the largest and one between them
RandomCodes == {10000000, 52749381, 99999998}

Digits == <<"0", "1", "2", "3", "4", "5", "6", "7", "8", "9">>

\* the decimal digits of n, the most significant first
RECURSIVE Decimal(_)
Decimal(n) ==
    IF n < 10 THEN <<Digits[n + 1]>>
    ELSE Append(Decimal(n \div 10), Digits[(n % 10) + 1])

\* sprintf(buf, "%08lu", n): the decimal digits of n, padded with zeros on
\* the left to eight characters
Format08(n) ==
    LET ds == Decimal(n)
    IN  [i \in 1..(8 - Min(Len(ds), 8)) |-> "0"] \o ds

\* generatePairingCode when random() returns rnd
generatePairingCode(rnd) == Format08(rnd)

\* loadSettings if it generated a code whenever it ran
loadSettings_AlwaysGenerates(p, rnd) ==
    [prefs |-> PrefPut(p, HkKey :> generatePairingCode(rnd)),
     homekit_code |-> generatePairingCode(rnd)]

\* loadSettings after a reset (homekit_code is "" then) when random() would
\* return rnd: the store and homekit_code afterwards
loadSettings(p, rnd) ==
    LET loaded == IF HkKey \in DOMAIN p THEN StrNCpy(p[HkKey], 9) ELSE EmptyStr
    IN  IF Len(loaded) # 8
        THEN [prefs |-> PrefPut(p, HkKey :> generatePairingCode(rnd)),
              homekit_code |-> generatePairingCode(rnd)]
        ELSE [prefs |-> p, homekit_code |-> loaded]

\* the number the random generator returned at the first boot, in the
\* specifications that do not concern the pairing code
FirstCode == CHOOSE rnd \in RandomCodes : TRUE

\* the numbers random() can return in a setup() from the store p; it is not
\* called when the store holds a code, and one value stands for all then
Draws(p) ==
    IF HkKey \in DOMAIN p /\ Len(p[HkKey]) = 8 THEN {FirstCode}
    ELSE RandomCodes

\* saveSettings under the cipher settings c
saveSettings(S, c) ==
    [S EXCEPT !.prefs = PrefPut(S.prefs,
                                (<<"enc_mode">> :> c.mode) @@
                                (<<"enc_len">> :> c.key_len) @@
                                (HkKey :> S.homekit_code))]

\* clearSettings
clearSettings(S) == [S EXCEPT !.prefs = <<>>]

(***************************************************************************)
(* Startup.                                                                *)
(***************************************************************************)
RECURSIVE CreateAll(_, _)
CreateAll(S, i) ==
    IF i > Len(S.devices) THEN S
    ELSE CreateAll(IF S.devices[i].active THEN createHomekitAccessory(S, i)
                   ELSE S, i + 1)

\* RAM after reset and setupHomeKit, for the NVS store p and the broker's
\* retained documents r (both survive a restart)
setupHomeKit(p, r) ==
    CreateAll([devices |-> loadDevices(p), accessories |-> BridgeOnly,
               homekit_started |-> TRUE, prefs |-> p,
               activityLog |-> [k \in 0..(MAX_ACTIVITY_LOG - 1) |-> ZeroEntry],
               activityLogCount |-> 0, activityLogIndex |-> 0,
               packets_received |-> 0, last_packet_time |-> 0,
               last_event |-> Event(""),
               mqtt_connected |-> FALSE, retained |-> r,
               lastDiagnosticsPublish |-> 0, homekit_code |-> EmptyStr,
               testCounter |-> 0,
               calls |-> <<>>, rt |-> <<>>, pubs |-> <<>>], 1)

\* setup() after a reset: loadSettings, then setupHomeKit; rnd is the number
\* the random generator would return
setup(p, r, rnd) ==
    LET l == loadSettings(p, rnd)
    IN  [setupHomeKit(l.prefs, r) EXCEPT !.homekit_code = l.homekit_code]

(***************************************************************************)
(* Actions: one handler each, run to completion.                           *)
(***************************************************************************)
\* the program variables take the values of the state record S.  A handler
\* that changed the program state counts as a step, and the clock has
\* advanced by the time the next handler runs.  A handler that changed nothing
\* is recorded in last_op only.
Same(S) == [S EXCEPT !.calls = <<>>, !.rt = <<>>, !.pubs = <<>>] = Cur

\* the packet recorded for a handler that is not the packet handler
NoPacket == [ok |-> FALSE, doc |-> <<>>, rssi |-> 0]

\* the arguments of a web request: the id, the new name (rename), the
\* sensor kind and the type (retype)
Arg(id, name, sensor, type) ==
    [id |-> id, name |-> name, sensor |-> sensor, type |-> type]

NoArg == Arg(EmptyStr, EmptyStr, "", 0)

\* the accessory identity held before the handler by the record it names
OldAid(i) == IF i \in 1..Len(devices) THEN devices[i].aid ELSE 0

Assign(S) ==
    /\ devices' = S.devices
    /\ accessories' = S.accessories
    /\ homekit_started' = S.homekit_started
    /\ prefs' = S.prefs
    /\ activityLog' = S.activityLog
    /\ activityLogCount' = S.activityLogCount
    /\ activityLogIndex' = S.activityLogIndex
    /\ packets_received' = S.packets_received
    /\ last_packet_time' = S.last_packet_time
    /\ last_event' = S.last_event
    /\ mqtt_connected' = S.mqtt_connected
    /\ retained' = S.retained
    /\ lastDiagnosticsPublish' = S.lastDiagnosticsPublish
    /\ homekit_code' = S.homekit_code
    /\ testCounter' = S.testCounter

Commit(S, op, clock) ==
    /\ Assign(S)
    /\ now' = IF Same(S) THEN now ELSE clock
    /\ steps' = IF Same(S) THEN steps ELSE steps + 1
    /\ last_op' = [op |-> op.op, res |-> op.res, dev |-> op.dev,
                   pkt |-> op.pkt, arg |-> op.arg, old |-> OldAid(op.dev),
                   calls |-> S.calls, rt |-> S.rt, pubs |-> S.pubs,
                   changed |-> ~Same(S)]
    /\ UNCHANGED <<mqtt_enabled, lastMqttReconnect, since, cipher>>

Apply(S, op) == Commit(S, op, now + 1)

\* A received packet.  When strcmp is handed a null pointer the behaviour is
\* undefined: the comparison reads address 0, which either faults (the
\* firmware panics and restarts) or yields a mismatch.
ProcessLoRaPacket(pkt) ==
    LET r == processLoRaPacket(Cur, pkt)
    IN  \/ Apply(r.S, [op |-> "packet", res |-> r.res, dev |-> r.dev,
                       pkt |-> pkt, arg |-> NoArg])
        \/ /\ NullKey(pkt)
           /\ \E rnd \in Draws(prefs) :
                Commit(setup(prefs, retained, rnd),
                     [op |-> "packet", res |-> "Crash", dev |-> 0, pkt |-> pkt,
                      arg |-> NoArg], 0)

HandleRemoveDevice(id) ==
    LET r == handleRemoveDevice(Cur, id)
    IN  Apply(r.S, [op |-> "remove", res |-> r.res,
                    dev |-> findDevice(devices, id), pkt |-> NoPacket,
                    arg |-> Arg(id, EmptyStr, "", 0)])

HandleRenameDevice(id, newName) ==
    LET r == handleRenameDevice(Cur, id, newName)
    IN  Apply(r.S, [op |-> "rename", res |-> r.res,
                    dev |-> findDevice(devices, id), pkt |-> NoPacket,
                    arg |-> Arg(id, newName, "", 0)])

\* renameDevice interrupted by a reset after step k of its rebind; setup()
\* runs from the store as the handler left it at that point
InterruptedRename(id, newName, k) ==
    LET i == findDevice(devices, id)
        st == renameSteps(Cur, i, newName)[k]
    IN  /\ Len(id) > 0
        /\ Len(newName) > 0
        /\ i # 0
        /\ devices[i].aid > 0
        /\ homekit_started
        /\ \E rnd \in Draws(st.prefs) :
             Commit(setup(st.prefs, st.retained, rnd),
                  [op |-> "rename", res |-> "Interrupted", dev |-> i,
                   pkt |-> NoPacket, arg |-> Arg(id, newName, "", 0)], 0)

HandleSetSensorType(id, sensor, typeArg) ==
    LET r == handleSetSensorType(Cur, id, sensor, typeArg)
    IN  Apply(r.S, [op |-> "retype", res |-> r.res,
                    dev |-> findDevice(devices, id), pkt |-> NoPacket,
                    arg |-> Arg(id, EmptyStr, sensor, typeArg)])

\* handleSetSensorType interrupted by a reset after step k of its rebind
InterruptedSetSensorType(id, sensor, typeArg, k) ==
    LET i == findDevice(devices, id)
        newType == ToUint8(typeArg)
        st == retypeSteps(retypeSaved(Cur, i, sensor, newType), i)[k]
    IN  /\ Len(id) > 0
        /\ i # 0
        /\ TypeChanged(devices[i], sensor, newType)
        /\ devices[i].aid > 0
        /\ homekit_started
        /\ \E rnd \in Draws(st.prefs) :
             Commit(setup(st.prefs, st.retained, rnd),
                  [op |-> "retype", res |-> "Interrupted", dev |-> i,
                   pkt |-> NoPacket,
                   arg |-> Arg(id, EmptyStr, sensor, typeArg)], 0)

\* a loop pass in which connectMQTT runs while the transport is down
ConnectMQTT(connected) ==
    /\ mqtt_enabled
    /\ ~mqtt_connected
    /\ Apply(connectMQTT(Cur, connected),
             [op |-> "connect", res |-> IF connected THEN "ok" ELSE "failed",
              dev |-> 0, pkt |-> NoPacket, arg |-> NoArg])

\* a loop pass in which mqttClient.loop() of an open session hands a
\* received message to the callback
MqttCallback(topic, payload) ==
    /\ mqtt_enabled
    /\ mqtt_connected
    /\ Apply(mqttCallback(Cur, topic, payload),
             [op |-> "message", res |-> "ok", dev |-> 0, pkt |-> NoPacket,
              arg |-> Arg(payload, EmptyStr, "", 0)])

\* the transport loses its connection
ConnectionLost ==
    /\ mqtt_connected
    /\ Apply([Cur EXCEPT !.mqtt_connected = FALSE],
             [op |-> "lost", res |-> "ok", dev |-> 0, pkt |-> NoPacket,
              arg |-> NoArg])

\* ESP.restart() or a power cycle, followed by setup()
Restart ==
    \E rnd \in Draws(prefs) :
    Commit(setup(prefs, retained, rnd),
           [op |-> "restart", res |-> "ok", dev |-> 0, pkt |-> NoPacket,
            arg |-> NoArg], 0)

(***************************************************************************)
(* Inputs.                                                                 *)
(***************************************************************************)
RSSI == 0 - 70

\* a document with the gateway key, the id and the given reading fields
Doc(id, fields) == ("k" :> Str(GATEWAY_KEY)) @@ ("id" :> Str(id)) @@ fields

Packet(doc, rssi) == [ok |-> TRUE, doc |-> doc, rssi |-> rssi]

\* the ids sensors send: empty, short, and one character more than a record
\* stores
PacketIds == {EmptyStr, ShortId, LongId}

\* the ids a web request names: those, and the stored form of each
WebIds == PacketIds \cup {StrNCpy(id, ID_SIZE) : id \in PacketIds}

\* the reading fields of the two sensors of the lifecycle specification: a
\* climate sensor and a motion/contact sensor
ClimateFields == ("t" :> Num(215)) @@ ("b" :> Num(80))
SecurityFields == ("m" :> Str("on")) @@ ("c" :> Bool(TRUE))

Packets == {Packet(Doc(id, f), RSSI) : id \in PacketIds,
                                       f \in {ClimateFields, SecurityFields}}

NewNames == {NewName, LongName}
SensorArgs == {"contact", "motion", ""}
\* the type arguments of a request: one of the defined variants, a value
\* that is none of them, and one that does not fit the uint8_t it is stored in
TypeArgs == {CONTACT_TYPE_LEAK, 7, 257}

\* the steps of a rebind a reset can follow
RebindSteps == 1..3

(***************************************************************************)
(* The bridge: packets, web requests, bus sessions and restarts, from the  *)
(* first boot with an empty store.  The bus is disabled, or enabled with   *)
(* the first connection attempt of the loop accepted or refused.           *)
(***************************************************************************)
StateIs(S) ==
    /\ devices = S.devices
    /\ accessories = S.accessories
    /\ homekit_started = S.homekit_started
    /\ prefs = S.prefs
    /\ activityLog = S.activityLog
    /\ activityLogCount = S.activityLogCount
    /\ activityLogIndex = S.activityLogIndex
    /\ packets_received = S.packets_received
    /\ last_packet_time = S.last_packet_time
    /\ last_event = S.last_event
    /\ mqtt_connected = S.mqtt_connected
    /\ retained = S.retained
    /\ lastDiagnosticsPublish = S.lastDiagnosticsPublish
    /\ homekit_code = S.homekit_code
    /\ testCounter = S.testCounter

\* setup() and the first connection attempt, from the store p
Boot(p, enabled, connected, rnd) ==
    /\ mqtt_enabled = enabled
    /\ now = 0
    /\ steps = 0
    /\ lastMqttReconnect = 0
    /\ since = [attempt |-> MQTT_RECONNECT_INTERVAL + 1,
                diag |-> IF connected THEN 0 ELSE DIAGNOSTICS_MIN_INTERVAL,
                attempts |-> 0]
    /\ last_op = [op |-> "boot", res |-> "ok", dev |-> 0, pkt |-> NoPacket,
                  arg |-> NoArg, old |-> 0, calls |-> <<>>, rt |-> <<>>,
                  pubs |-> connectMQTT(setup(p, <<>>, rnd), connected).pubs,
                  changed |-> TRUE]
    /\ StateIs(connectMQTT(setup(p, <<>>, rnd), connected))

\* the cipher settings of a first boot, and no buffer received
DefaultCipher ==
    [mode |-> ENCRYPT_XOR, key |-> KeyArray(DEFAULT_ENCRYPT_KEY),
     key_len |-> ENCRYPT_KEY_LEN, data |-> <<>>, orig |-> <<>>, prev |-> <<>>,
     runs |-> 0]

Init == /\ \E enabled \in BOOLEAN :
            \E connected \in {c \in BOOLEAN : c => enabled} :
                Boot(<<>>, enabled, connected, FirstCode)
        /\ cipher = DefaultCipher

\* The runs explored: at most MaxSteps handlers that change the state.  A
\* request that changed nothing leaves the program in the state it was in, whose
\* runs are explored from there, so the run that recorded it is not continued.
Budget == steps < MaxSteps /\ last_op.changed

Next ==
    \/ \E pkt \in Packets : Budget /\ ProcessLoRaPacket(pkt)
    \/ \E id \in WebIds : Budget /\ HandleRemoveDevice(id)
    \/ \E id \in WebIds, n \in NewNames : Budget /\ HandleRenameDevice(id, n)
    \/ \E id \in WebIds, s \in SensorArgs, t \in TypeArgs :
           Budget /\ HandleSetSensorType(id, s, t)
    \/ \E id \in WebIds, n \in NewNames, k \in RebindSteps :
           Budget /\ InterruptedRename(id, n, k)
    \/ \E id \in WebIds, s \in SensorArgs, t \in TypeArgs, k \in RebindSteps :
           Budget /\ InterruptedSetSensorType(id, s, t, k)
    \/ \E c \in BOOLEAN : Budget /\ ConnectMQTT(c)
    \/ Budget /\ ConnectionLost
    \/ \E id \in WebIds : Budget /\ MqttCallback(<<"set">>, id)
    \/ Budget /\ Restart

Spec == Init /\ [][Next]_vars

(***************************************************************************)
(* Bus sessions: the loop alone, with no device.  A pass of the loop runs  *)
(* loopMQTT and publishBridgeDiagnosticsIfChanged at the current time and  *)
(* takes one to MaxPassTicks ticks; the broker accepts or refuses a        *)
(* connection; the transport of an open session can be lost at any time.   *)
(* The loop keeps running, so a pass is always taken eventually.           *)
(***************************************************************************)
\* the time since an event after a pass of adv ms in which it happened
\* (acted) or not.  An age is not counted beyond cap: "more than the
\* reconnect interval", "the diagnostics interval or more"; the cap is also
\* the age of an event that has not happened since boot.
Aged(age, acted, adv, cap) == Min(IF acted THEN adv ELSE age + adv, cap)

LoopPass(d, connected) ==
    LET r == loopMQTT(Cur, lastMqttReconnect, connected)
        S == publishBridgeDiagnosticsIfChanged(r.S)
        published == \E k \in 1..Len(S.pubs) : S.pubs[k].kind = "diagnostics"
        adv == d * TickMs
    IN  /\ Assign(S)
        /\ lastMqttReconnect' = r.last
        /\ now' = (now + adv) % Word
        /\ since' = [attempt |-> Aged(since.attempt, r.attempted, adv,
                                      MQTT_RECONNECT_INTERVAL + 1),
                     diag |-> Aged(since.diag, published, adv,
                                   DIAGNOSTICS_MIN_INTERVAL),
                     attempts |-> IF r.attempted THEN 1 - since.attempts
                                  ELSE since.attempts]
        /\ last_op' = [op |-> "loop",
                       res |-> IF ~r.attempted THEN "idle"
                               ELSE IF connected THEN "accepted" ELSE "refused",
                       dev |-> 0, pkt |-> NoPacket, arg |-> NoArg, old |-> 0,
                       calls |-> S.calls, rt |-> S.rt, pubs |-> S.pubs,
                       changed |-> ~Same(S)]
        /\ UNCHANGED <<mqtt_enabled, steps, cipher>>

TransportLost ==
    /\ mqtt_connected
    /\ Assign([Cur EXCEPT !.mqtt_connected = FALSE])
    /\ last_op' = [op |-> "lost", res |-> "ok", dev |-> 0, pkt |-> NoPacket,
                   arg |-> NoArg, old |-> 0, calls |-> <<>>, rt |-> <<>>,
                   pubs |-> <<>>, changed |-> TRUE]
    /\ UNCHANGED <<mqtt_enabled, lastMqttReconnect, since, cipher, now, steps>>

Pass == \E d \in 1..MaxPassTicks, c \in BOOLEAN : LoopPass(d, c)

NextSession == Pass \/ TransportLost

SpecSession == Init /\ [][NextSession]_vars /\ WF_vars(Pass)

(***************************************************************************)
(* The payload cipher alone: decryptBuffer applied, up to MaxDecrypts      *)
(* times, to a received buffer under every mode, every key length and two  *)
(* keys.                                                                   *)
(***************************************************************************)
\* the received buffers: every length up to MaxBufLen, two byte patterns
Buffers == {[i \in 1..n |-> (seed + 37 * i) % 256] :
                n \in 0..MaxBufLen, seed \in {0, 200}}

\* the keys: the default, and one with sixteen non-zero bytes
Keys == {KeyArray(DEFAULT_ENCRYPT_KEY),
         [i \in 1..KEY_SIZE |-> (90 + 11 * i) % 256]}

\* the modes: the three defined ones and a value that is none of them
Modes == {ENCRYPT_NONE, ENCRYPT_XOR, ENCRYPT_AES, 3}

InitCipher ==
    /\ Boot(<<>>, FALSE, FALSE, FirstCode)
    /\ \E m \in Modes, k \in Keys, n \in 0..KEY_SIZE, b \in Buffers :
           cipher = [mode |-> m, key |-> k, key_len |-> n, data |-> b,
                     orig |-> b, prev |-> b, runs |-> 0]

DecryptBuffer ==
    /\ cipher.runs < MaxDecrypts
    /\ cipher' = [cipher EXCEPT !.data = decryptBuffer(cipher, cipher.data),
                                !.prev = cipher.data,
                                !.runs = cipher.runs + 1]
    /\ UNCHANGED <<devices, accessories, homekit_started, prefs, activityLog,
                   activityLogCount, activityLogIndex, packets_received,
                   last_packet_time, last_event, mqtt_enabled, mqtt_connected,
                   retained, lastDiagnosticsPublish, lastMqttReconnect, since,
                   homekit_code, testCounter, now, steps, last_op>>

SpecCipher == InitCipher /\ [][DecryptBuffer]_vars

(***************************************************************************)
(* Registration and removal alone: runs of at most MaxCapacitySteps        *)
(* packets and removals.                                                   *)
(***************************************************************************)
NextCapacity ==
    \/ \E pkt \in Packets :
           steps < MaxCapacitySteps /\ last_op.changed /\ ProcessLoRaPacket(pkt)
    \/ \E id \in WebIds :
           steps < MaxCapacitySteps /\ last_op.changed /\ HandleRemoveDevice(id)

SpecCapacity == Init /\ [][NextCapacity]_vars

(***************************************************************************)
(* Settings: first boots with every pairing code drawn, then packets and   *)
(* removals (which save the devices), saved settings, restarts and factory *)
(* resets, with the bus disabled.                                          *)
(***************************************************************************)
\* handleSave: saveSettings with the settings in force
HandleSave ==
    Apply(saveSettings(Cur, cipher),
          [op |-> "save", res |-> "ok", dev |-> 0, pkt |-> NoPacket,
           arg |-> NoArg])

\* handleReset: clearSettings, then ESP.restart() and setup()
HandleReset ==
    \E rnd \in RandomCodes :
        Commit(setup(clearSettings(Cur).prefs, retained, rnd),
               [op |-> "reset", res |-> "ok", dev |-> 0, pkt |-> NoPacket,
                arg |-> NoArg], 0)

InitSettings ==
    /\ \E rnd \in RandomCodes : Boot(<<>>, FALSE, FALSE, rnd)
    /\ cipher = DefaultCipher

NextSettings ==
    \/ \E pkt \in Packets : steps < MaxSettingsSteps /\ ProcessLoRaPacket(pkt)
    \/ \E id \in WebIds : steps < MaxSettingsSteps /\ HandleRemoveDevice(id)
    \/ steps < MaxSettingsSteps /\ HandleSave
    \/ steps < MaxSettingsSteps /\ Restart
    \/ steps < MaxSettingsSteps /\ HandleReset

SpecSettings == InitSettings /\ [][NextSettings]_vars

(***************************************************************************)
(* The activity log alone: runs of at most MaxActivitySteps packets of one *)
(* sensor and requests to clear the log.                                   *)
(***************************************************************************)
NextActivity ==
    \/ \E f \in {ClimateFields, SecurityFields} :
           /\ steps < MaxActivitySteps
           /\ ProcessLoRaPacket(Packet(Doc(ShortId, f), RSSI))
    \/ /\ steps < MaxActivitySteps
       /\ Apply(handleClearActivity(Cur),
                [op |-> "clear", res |-> "ok", dev |-> 0, pkt |-> NoPacket,
                 arg |-> NoArg])

SpecActivity == Init /\ [][NextActivity]_vars

(***************************************************************************)
(* Test devices: runs of at most MaxSteps requests that create a test      *)
(* device or update the test devices, removals of test devices and of      *)
(* sensors, and packets of one sensor.                                     *)
(***************************************************************************)
NextTest ==
    \/ \E type \in {"temp", "motion", "update", "other"}, rnd \in {0, 9} :
           /\ Budget
           /\ LET r == handleTestDevice(Cur, type, rnd)
              IN  Apply(r.S, [op |-> "test", res |-> r.res, dev |-> r.dev,
                              pkt |-> NoPacket,
                              arg |-> Arg(EmptyStr, EmptyStr, type, rnd)])
    \/ \E id \in {ShortId} \cup {<<TestNames[n]>> : n \in 1..Len(TestNames)} :
           Budget /\ HandleRemoveDevice(id)
    \/ Budget /\ ProcessLoRaPacket(Packet(Doc(ShortId, SecurityFields), RSSI))

SpecTest == Init /\ [][NextTest]_vars

(***************************************************************************)
(* Startup from a store left by an earlier session or firmware: any count  *)
(* up to one more than the registry holds, and under every index an entry  *)
(* that is missing, one whose id is empty and a saved record.  Packets and *)
(* restarts follow.                                                        *)
(***************************************************************************)
\* the stores: es names the entry under each index
Stores ==
    LET Saved(i, e) ==
            [ZeroDevice EXCEPT
               !.id = IF e = "empty" THEN EmptyStr
                      ELSE IF i % 2 = 0 THEN ShortId ELSE OtherId,
               !.name = IF i % 2 = 0 THEN ShortId ELSE OtherId,
               !.has_temp = TRUE, !.has_motion = (i % 2 = 1)]
        StoreOf(n, es) ==
            [k \in {CountKey} \cup
                   {DevKey(i, f) : i \in {j \in DOMAIN es : es[j] # "missing"},
                                  f \in DeviceFields}
               |-> IF k = CountKey THEN n
                   ELSE DeviceKeys(k[1], Saved(k[1], es[k[1]]))[k]]
    IN  {StoreOf(n, es) : n \in 0..(MAX_DEVICES + 1),
                          es \in [0..MAX_DEVICES -> {"missing", "empty", "saved"}]}

NextLoad ==
    \/ \E pkt \in Packets : steps < MaxPackets /\ ProcessLoRaPacket(pkt)
    \/ steps < MaxPackets /\ Restart

SpecLoad ==
    /\ \E p \in Stores : Boot(p, FALSE, FALSE, FirstCode)
    /\ cipher = DefaultCipher
    /\ [][NextLoad]_vars

(***************************************************************************)
(* Packet ingestion alone: runs of at most MaxPackets packets, valid and   *)
(* invalid, with every reading field and every form of the m and c values. *)
(***************************************************************************)
IngestFields ==
    { <<>>,
      "t" :> Num(215), "hu" :> Num(55), "b" :> Num(80),
      "l" :> Num(300), "lux" :> Num(500),
      "m" :> Bool(TRUE), "m" :> Str("on"), "m" :> Str("off"),
      "c" :> Str("1"), "c" :> Str("true"), "c" :> Bool(FALSE),
      ("t" :> Num(190)) @@ ("b" :> Num(80)),
      ("t" :> Num(215)) @@ ("hu" :> Num(40)) @@ ("l" :> Num(120)) @@
          ("lux" :> Num(120)) @@ ("m" :> Bool(FALSE)) @@ ("c" :> Str("off")) }

InvalidPackets ==
    { [ok |-> FALSE, doc |-> <<>>, rssi |-> RSSI],
      Packet(("id" :> Str(ShortId)) @@ ("t" :> Num(215)), RSSI),
      Packet(("k" :> Str("zz")) @@ ("id" :> Str(ShortId)) @@ ("t" :> Num(215)), RSSI),
      Packet(("k" :> Num(5)) @@ ("id" :> Str(ShortId)) @@ ("t" :> Num(215)), RSSI),
      Packet(("k" :> Str(GATEWAY_KEY)) @@ ("t" :> Num(215)), RSSI) }

IngestPackets ==
    {Packet(Doc(ShortId, f), RSSI) : f \in IngestFields} \cup
    \* the first messages of a second sensor
    {Packet(Doc(OtherId, f), 0 - 40) :
         f \in { "t" :> Num(215), "m" :> Bool(TRUE) }} \cup
    InvalidPackets

NextIngest ==
    \E pkt \in IngestPackets :
        steps < MaxPackets /\ last_op.changed /\ ProcessLoRaPacket(pkt)

SpecIngest == Init /\ [][NextIngest]_vars

(***************************************************************************)
(* Properties.  A property of one handler run is an action property: the   *)
(* unprimed variables are the state the handler started in, the primed     *)
(* ones the state it left, and last_op' names the handler, its input and   *)
(* how it ended.                                                           *)
(***************************************************************************)
\* the packet passes validation: it parses, carries the configured secret
\* in k and carries an id
ValidPacket(pkt) ==
    /\ pkt.ok
    /\ "k" \in DOMAIN pkt.doc
    /\ pkt.doc["k"] = Str(GATEWAY_KEY)
    /\ "id" \in DOMAIN pkt.doc

\* the packet fails validation
RejectedPacket(pkt) ==
    \/ ~pkt.ok
    \/ "k" \notin DOMAIN pkt.doc
    \/ pkt.doc["k"] # Str(GATEWAY_KEY)
    \/ "id" \notin DOMAIN pkt.doc

\* the truth value of an m or c field: a boolean as it is, of the strings
\* "on", "1" and "true" only
Truth(v) == IF v.kind = "bool" THEN v.val ELSE v.val \in {"on", "1", "true"}

\* C1: a valid packet whose id matches no active record, received while the
\* registry has a free slot, creates exactly one record, and the six
\* capability flags of that record are true exactly for the reading fields
\* of the message: t, hu, b, l or lux, m, c.
C1_FlagsFromFirstMessage ==
    [][(/\ last_op'.op = "packet"
        /\ ValidPacket(last_op'.pkt)
        /\ findDevice(devices, last_op'.pkt.doc["id"].val) = 0
        /\ Len(devices) < MAX_DEVICES)
       => LET D == DOMAIN last_op'.pkt.doc
              n == Len(devices) + 1
          IN  /\ Len(devices') = n
              /\ \A i \in 1..Len(devices) : devices'[i] = devices[i]
              /\ devices'[n].active
              /\ Caps(devices'[n]) =
                     <<"t" \in D, "hu" \in D, "b" \in D,
                       ("l" \in D) \/ ("lux" \in D), "m" \in D, "c" \in D>>]_vars

\* C1, reached: a record was created from a first message carrying lux, and
\* its light capability is off.
C1_CreatedFromLuxWithoutLight ==
    /\ last_op.op = "packet"
    /\ last_op.res = "created"
    /\ "lux" \in DOMAIN last_op.pkt.doc
    /\ "l" \notin DOMAIN last_op.pkt.doc
    /\ devices[last_op.dev].active
    /\ ~devices[last_op.dev].has_light

\* C2: when a later valid packet of an active record carries a reading field
\* whose capability flag is false on the record, the stored value of that
\* reading is the same after the update as before it.
C2_DisabledFieldsIgnored ==
    [][(last_op'.op = "packet" /\ last_op'.res = "updated")
       => LET D == DOMAIN last_op'.pkt.doc
              d == devices[last_op'.dev]
              e == devices'[last_op'.dev]
          IN  /\ ("t" \in D /\ ~d.has_temp) => e.temperature = d.temperature
              /\ ("hu" \in D /\ ~d.has_hum) => e.humidity = d.humidity
              /\ ("b" \in D /\ ~d.has_batt) => e.battery = d.battery
              /\ (("l" \in D \/ "lux" \in D) /\ ~d.has_light) => e.lux = d.lux
              /\ ("m" \in D /\ ~d.has_motion) => e.motion = d.motion
              /\ ("c" \in D /\ ~d.has_contact) => e.contact = d.contact]_vars

\* C2, reached: a record without the humidity capability stores the humidity
\* of a later packet.
C2_HumidityStoredWithoutCapability ==
    /\ last_op.op = "packet"
    /\ last_op.res = "updated"
    /\ "hu" \in DOMAIN last_op.pkt.doc
    /\ ~devices[last_op.dev].has_hum
    /\ devices[last_op.dev].humidity = last_op.pkt.doc["hu"].val
    /\ devices[last_op.dev].humidity # 0

\* C3: every update of a record sets its rssi to the packet's signal strength
\* and its last_seen to the current time, and for every reading field of the
\* message whose capability is enabled on the record the stored reading is
\* the message's value ("on", "1", "true" of m and c are true, any other
\* string false).
C3_EnabledFieldsApplied ==
    [][(last_op'.op = "packet" /\ last_op'.res \in {"created", "updated"})
       => LET doc == last_op'.pkt.doc
              D == DOMAIN doc
              e == devices'[last_op'.dev]
          IN  /\ e.rssi = last_op'.pkt.rssi
              /\ e.last_seen = now
              /\ ("t" \in D /\ e.has_temp) => e.temperature = doc["t"].val
              /\ ("hu" \in D /\ e.has_hum) => e.humidity = doc["hu"].val
              /\ ("b" \in D /\ e.has_batt) => e.battery = doc["b"].val
              /\ ("l" \in D /\ e.has_light) => e.lux = doc["l"].val
              /\ ("lux" \in D /\ e.has_light) => e.lux = doc["lux"].val
              /\ ("m" \in D /\ e.has_motion) => e.motion = Truth(doc["m"])
              /\ ("c" \in D /\ e.has_contact) => e.contact = Truth(doc["c"])]_vars

\* C3, reached: a record with the light capability was updated by a message
\* carrying lux, and its stored lux is not the message's value.
C3_LuxOfMessageNotStored ==
    /\ last_op.op = "packet"
    /\ last_op.res = "updated"
    /\ "lux" \in DOMAIN last_op.pkt.doc
    /\ devices[last_op.dev].has_light
    /\ devices[last_op.dev].last_seen = now - 1
    /\ devices[last_op.dev].lux # last_op.pkt.doc["lux"].val

\* C4: while a record stays active its six capability flags never change:
\* no packet (with fields added or omitted), rename, retype, save or removal
\* of another record changes a flag of a record that is active before and
\* after the handler, and a record reloaded by a restart (also one that
\* interrupts a handler) carries the id, name and flags of a record that was
\* active before it.
C4_CapabilitiesFrozen ==
    [][IF last_op'.op = "restart" \/ last_op'.res = "Interrupted"
       THEN \A k \in 1..Len(devices') :
                \E i \in ActiveSlots(devices) :
                    /\ devices'[k].id = devices[i].id
                    /\ devices'[k].name = devices[i].name
                    /\ Caps(devices'[k]) = Caps(devices[i])
       ELSE \A i \in 1..Len(devices) :
                (devices[i].active /\ i <= Len(devices') /\ devices'[i].active)
                    => Caps(devices'[i]) = Caps(devices[i])]_vars

\* C4, reached: a record was updated by a message carrying a field it has no
\* capability for, and omitting a field it has the capability for.
C4_UpdatedWithOtherFields ==
    /\ last_op.op = "packet"
    /\ last_op.res = "updated"
    /\ "m" \in DOMAIN last_op.pkt.doc
    /\ "t" \notin DOMAIN last_op.pkt.doc
    /\ devices[last_op.dev].active
    /\ devices[last_op.dev].has_temp
    /\ ~devices[last_op.dev].has_motion

\* C5: in every reachable state no two active records have equal stored ids.
C5_OneActiveRecordPerId ==
    \A i, j \in ActiveSlots(devices) : devices[i].id = devices[j].id => i = j

\* C5, reached: a packet whose id is longer than a record stores created a
\* second active record with the stored id of another one.
C5_DuplicateOfTruncatedId ==
    /\ last_op.op = "packet"
    /\ last_op.res = "created"
    /\ Len(last_op.pkt.doc["id"].val) >= ID_SIZE
    /\ \E i \in ActiveSlots(devices) :
           i # last_op.dev /\ devices[i].id = devices[last_op.dev].id

\* C6: a packet that fails to parse, whose k is absent or differs from the
\* secret, or that has no id leaves the device records, device_count, the
\* accessories, the saved snapshot, the activity log and the accepted-packet
\* counter as they were.
C6_RejectedPacketMutatesNothing ==
    [][(last_op'.op = "packet" /\ RejectedPacket(last_op'.pkt))
       => UNCHANGED <<devices, accessories, prefs, activityLog,
                      activityLogCount, activityLogIndex, packets_received>>]_vars

\* C6, reached: a packet whose k is not the secret ended the run of the
\* firmware; the registry holds a record, and the counter of accepted packets
\* and the activity log are empty.
C6_RejectedPacketResetCounters ==
    /\ last_op.op = "packet"
    /\ last_op.res = "Crash"
    /\ RejectedPacket(last_op.pkt)
    /\ Len(devices) > 0
    /\ packets_received = 0
    /\ activityLogCount = 0

\* C7: for every valid packet the calls are, in this order: registerDevice
\* when the id has no active record, then updateDevice on the record found or
\* just created, with the packet's document and RSSI; when registerDevice
\* returned no record, updateDevice is not called.
C7_CreateThenUpdate ==
    [][(last_op'.op = "packet" /\ ValidPacket(last_op'.pkt))
       => LET pkt == last_op'.pkt
              found == findDevice(devices, pkt.doc["id"].val)
              new == Len(devices) + 1
              reg(i) == Call("registerDevice", i, pkt.doc, 0)
              upd(i) == Call("updateDevice", i, pkt.doc, pkt.rssi)
              Updated(i) == /\ devices'[i].active
                            /\ devices'[i].last_seen = now
                            /\ devices'[i].rssi = pkt.rssi
          IN  IF found # 0
              THEN last_op'.calls = <<upd(found)>> /\ Updated(found)
              ELSE IF Len(devices) < MAX_DEVICES
              THEN /\ last_op'.calls = <<reg(new), upd(new)>>
                   /\ Len(devices') = new
                   /\ Updated(new)
              ELSE last_op'.calls = <<reg(0)>>]_vars

\* C7, reached: a packet created a record and updated it.
C7_CreatedAndUpdated ==
    /\ last_op.op = "packet"
    /\ last_op.res = "created"
    /\ Len(last_op.calls) = 2
    /\ last_op.calls[2].fn = "updateDevice"
    /\ last_op.calls[2].dev = Len(devices)
    /\ devices[Len(devices)].last_seen = now - 1

\* C8: when every slot is used, a valid packet with an unseen id creates no
\* record and is not applied: the records, device_count, the accessories, the
\* saved snapshot, the retained documents of the bus and the activity log are
\* unchanged.
C8_FullRegistryRejects ==
    [][(/\ last_op'.op = "packet"
        /\ ValidPacket(last_op'.pkt)
        /\ findDevice(devices, last_op'.pkt.doc["id"].val) = 0
        /\ Len(devices) >= MAX_DEVICES)
       => /\ last_op'.res = "CapacityExceeded"
          /\ last_op'.dev = 0
          /\ UNCHANGED <<devices, accessories, prefs, retained, activityLog,
                         activityLogCount, activityLogIndex>>]_vars

\* C8, reached: a packet with an unseen id was refused by a full registry
\* while the bus was connected.
C8_RefusedAtCapacity ==
    /\ last_op.op = "packet"
    /\ last_op.res = "CapacityExceeded"
    /\ device_count = MAX_DEVICES
    /\ mqtt_connected

\* the persisted fields of the records of a list
PersistedSeq(ds) == [k \in 1..Len(ds) |-> Persisted(ds[k])]

\* C9: a restart reconstructs exactly the records that were active when the
\* snapshot was saved: the same ids, names, capability flags, contact_type
\* and motion_type, and no other record.
C9_SaveLoadRoundTrip ==
    [][last_op'.op = "restart"
       => /\ \A i \in 1..Len(devices') : devices'[i].active
          /\ PersistedSeq(devices') = PersistedSeq(ActiveSeq(devices))]_vars

\* C9, reached: after a restart the registry holds fewer records than the
\* snapshot counts.
C9_SavedRecordNotLoaded ==
    /\ last_op.op = "restart"
    /\ Len(devices) < PrefGet(prefs, CountKey, 0)

\* C10: after a rename or a retype of an active device has completed, every
\* active device is bound to exactly one live accessory, which carries its
\* name and services; no two active devices share an identity; the identity
\* the device had before is not live; no spacer is live; and no other
\* accessory than the bridge's and the active devices' is live.
C10_OneLiveIdentityPerDevice ==
    [][(/\ last_op'.op \in {"rename", "retype"}
        /\ last_op'.res \in {"Renamed", "Changed"}
        /\ homekit_started)
       => /\ \A j \in ActiveSlots(devices') :
                 \E k \in 1..Len(accessories') :
                     /\ accessories'[k].aid = devices'[j].aid
                     /\ accessories'[k].kind = "device"
                     /\ accessories'[k].dev = j
                     /\ accessories'[k].name = devices'[j].name
                     /\ accessories'[k].services = ServicesOf(devices'[j])
                     /\ \A m \in 1..Len(accessories') :
                            accessories'[m].aid = devices'[j].aid => m = k
          /\ \A j, k \in ActiveSlots(devices') :
                 devices'[j].aid = devices'[k].aid => j = k
          /\ devices[last_op'.dev].aid > 0
          /\ devices[last_op'.dev].aid \notin LiveAids(accessories')
          /\ \A k \in 1..Len(accessories') : accessories'[k].kind # "spacer"
          /\ Len(accessories') = 1 + Cardinality(ActiveSlots(devices'))]_vars

\* C10, reached: a rename of a bound device completed and left every program
\* variable as it was, the device's accessory identity included: the identity
\* the device had before the rename is the one that is live after it.
C10_ReboundIntoOldIdentity ==
    /\ last_op.op = "rename"
    /\ last_op.res = "Renamed"
    /\ ~last_op.changed
    /\ devices[last_op.dev].active
    /\ devices[last_op.dev].aid \in LiveAids(accessories)

\* a rename or a retype ran its rebind to completion
RebindCompleted(op) ==
    /\ op.op \in {"rename", "retype"}
    /\ op.res \in {"Renamed", "Changed"}

\* the accessories of the list accs that are bound to the record in slot j
RealOf(accs, j) ==
    {k \in 1..Len(accs) : accs[k].kind = "device" /\ accs[k].dev = j}

SpacersOf(accs) == {k \in 1..Len(accs) : accs[k].kind = "spacer"}

\* C11: after every runtime call of a rename or retype rebind, each record
\* has at most one live real accessory and at most one spacer is live; the
\* old identity of the rebound record is deleted by a call before the one
\* that creates its new accessory, and is not live as a real accessory of
\* the record once the new one is.
C11_OneRealIdentityDuringRebind ==
    [][RebindCompleted(last_op')
       => LET rt == last_op'.rt
              i == last_op'.dev
              old == devices[i].aid
          IN  /\ old > 0
              /\ \A s \in 1..Len(rt) :
                     /\ \A j \in 1..Len(devices) :
                            Cardinality(RealOf(rt[s].live, j)) <= 1
                     /\ Cardinality(SpacersOf(rt[s].live)) <= 1
                     /\ rt[s].fn = "createHomekitAccessory"
                            => \E q \in 1..(s - 1) :
                                   /\ rt[q].fn = "deleteAccessory"
                                   /\ rt[q].aid = old
                                   /\ RealOf(rt[q].live, i) = {}
              /\ \E s \in 1..Len(rt) : rt[s].fn = "createHomekitAccessory"]_vars

\* C11, reached: a retype rebound a device while another device was bound;
\* after its second call a spacer and the other device's accessory were
\* live and the rebound device had no accessory, after its third call the
\* spacer and the new accessory were live together.
C11_SpacerBesideNewIdentity ==
    /\ last_op.op = "retype"
    /\ last_op.res = "Changed"
    /\ Len(last_op.rt) = 4
    /\ Cardinality(SpacersOf(last_op.rt[2].live)) = 1
    /\ RealOf(last_op.rt[2].live, last_op.dev) = {}
    /\ \E j \in 1..Len(devices) :
           j # last_op.dev /\ RealOf(last_op.rt[2].live, j) # {}
    /\ Cardinality(SpacersOf(last_op.rt[3].live)) = 1
    /\ Cardinality(RealOf(last_op.rt[3].live, last_op.dev)) = 1

\* C12: a rename, and a retype that changes the type, of a bound record
\* make exactly four runtime calls, in this order: deleteAccessory of the
\* record's identity, the allocation of the spacer, createHomekitAccessory
\* for the record, deleteAccessory of the spacer.
C12_FourStepsInOrder ==
    [][RebindCompleted(last_op')
       => LET rt == last_op'.rt
              i == last_op'.dev
          IN  /\ Len(rt) = 4
              /\ rt[1].fn = "deleteAccessory"
              /\ rt[1].aid = devices[i].aid
              /\ rt[1].aid \notin LiveAids(rt[1].live)
              /\ rt[2].fn = "new SpanAccessory"
              /\ rt[2].live[Len(rt[2].live)].kind = "spacer"
              /\ rt[2].live[Len(rt[2].live)].aid = rt[2].aid
              /\ rt[3].fn = "createHomekitAccessory"
              /\ rt[3].aid = devices'[i].aid
              /\ rt[3].live[Len(rt[3].live)].dev = i
              /\ rt[4].fn = "deleteAccessory"
              /\ rt[4].aid = rt[2].aid
              /\ rt[4].live = accessories'
              /\ SpacersOf(accessories') = {}]_vars

\* C12, reached: a rename of a bound device made its four calls; the last
\* one deleted the spacer the second one allocated.
C12_RenameMadeFourCalls ==
    /\ last_op.op = "rename"
    /\ last_op.res = "Renamed"
    /\ last_op.old > 0
    /\ Len(last_op.rt) = 4
    /\ last_op.rt[2].aid > 0
    /\ last_op.rt[4].aid = last_op.rt[2].aid
    /\ last_op.rt[1].aid = last_op.old

\* C13: after a completed rename or retype of a bound record, the accessory
\* handle of the record is higher than (so different from) the handle it held
\* before, wherever the old handle stood among the live ones.
C13_NewHandleIsHigher ==
    [][(RebindCompleted(last_op') /\ devices[last_op'.dev].aid > 0)
       => devices'[last_op'.dev].aid > devices[last_op'.dev].aid]_vars

\* C13, reached: a retype rebound a device whose handle was the highest live
\* one; the spacer took a lower free handle and the device holds the handle
\* it held before.
C13_RetypedIntoSameHandle ==
    /\ last_op.op = "retype"
    /\ last_op.res = "Changed"
    /\ last_op.old > 0
    /\ Len(last_op.rt) = 4
    /\ last_op.rt[2].aid < last_op.old
    /\ devices[last_op.dev].aid = last_op.old

\* the registry holds exactly the records of the snapshot p, in its order,
\* each active and bound to exactly one live accessory of the list accs, and
\* accs holds no spacer and nothing but the bridge and these accessories
ResyncedFrom(p, devs, accs) ==
    LET n == PrefGet(p, CountKey, 0)
    IN  /\ Len(devs) = n
        /\ \A s \in 0..(n - 1) :
               /\ devs[s + 1].active
               /\ devs[s + 1].id = PrefGet(p, DevKey(s, "id"), EmptyStr)
               /\ devs[s + 1].name = PrefGet(p, DevKey(s, "name"), EmptyStr)
               /\ devs[s + 1].contact_type = PrefGet(p, DevKey(s, "ctype"), 0)
               /\ devs[s + 1].motion_type = PrefGet(p, DevKey(s, "mtype"), 0)
               /\ Cardinality(RealOf(accs, s + 1)) = 1
               /\ \A k \in RealOf(accs, s + 1) : accs[k].aid = devs[s + 1].aid
               /\ Cardinality({k \in 1..Len(accs) :
                                  accs[k].aid = devs[s + 1].aid}) = 1
        /\ SpacersOf(accs) = {}
        /\ Len(accs) = n + 1

\* C14: when a rename or retype is interrupted by a reset between two steps
\* of its rebind, the startup that follows leaves every record of the saved
\* snapshot active and bound to exactly one live accessory, with no spacer
\* and no duplicate, and a second startup from the same snapshot gives the
\* same state.
C14_ResyncAfterInterruptedRebind ==
    [][last_op'.res = "Interrupted"
       => /\ ResyncedFrom(prefs', devices', accessories')
          /\ LET again == setupHomeKit(prefs', retained')
             IN  /\ again.devices = devices'
                 /\ again.accessories = accessories'
                 /\ again.prefs = prefs']_vars

\* C14, reached: a rename was interrupted during its rebind; after the
\* startup that followed, the registry holds fewer records than the snapshot
\* counts.
C14_SnapshotRecordMissingAfterResync ==
    /\ last_op.op = "rename"
    /\ last_op.res = "Interrupted"
    /\ Len(devices) < PrefGet(prefs, CountKey, 0)
    /\ Len(devices) > 0

\* the slots of the active records whose stored id is id
ActiveWithId(devs, id) == {i \in 1..Len(devs) : devs[i].active /\ devs[i].id = id}

\* the ids of the snapshot p
SnapshotIds(p) ==
    {PrefGet(p, DevKey(s, "id"), EmptyStr) : s \in 0..(PrefGet(p, CountKey, 0) - 1)}

\* C15: removeDevice(id) for an id that has an active record returns true;
\* afterwards the record is inactive with handle 0, no active record has the
\* id, the record's accessory is not live and no accessory was allocated, the
\* saved snapshot does not contain the id, and the other records and
\* accessories are as before.
C15_RemoveDevice ==
    [][(/\ last_op'.op = "remove"
        /\ Len(last_op'.arg.id) > 0
        /\ ActiveWithId(devices, last_op'.arg.id) # {})
       => LET id == last_op'.arg.id
              i == last_op'.dev
              Others(a) == a.aid # devices[i].aid
          IN  /\ last_op'.res = "Device removed"
              /\ i \in ActiveWithId(devices, id)
              /\ ~devices'[i].active
              /\ devices'[i].aid = 0
              /\ ActiveWithId(devices', id) = {}
              /\ devices[i].aid > 0
              /\ devices[i].aid \notin LiveAids(accessories')
              /\ accessories' = SelectSeq(accessories, Others)
              /\ id \notin SnapshotIds(prefs')
              /\ Len(devices') = Len(devices)
              /\ \A j \in 1..Len(devices) : j # i => devices'[j] = devices[j]]_vars

\* C15, reached: a device was removed, and an active record with the id of
\* the request remains in the registry and in the snapshot.
C15_RemovedIdStillFound ==
    /\ last_op.op = "remove"
    /\ last_op.res = "Device removed"
    /\ ~devices[last_op.dev].active
    /\ ActiveWithId(devices, last_op.arg.id) # {}
    /\ last_op.arg.id \in SnapshotIds(prefs)

\* the responses by which a web request reports that it did nothing
FailureResponses ==
    {"Device not found", "Missing id parameter", "Missing id or name parameter",
     "Missing parameters"}

\* C16: a rename, a removal or a retype naming an id that no active record
\* has (never seen, or removed) reports failure and leaves the registry, the
\* accessories, the saved snapshot and the retained bus documents unchanged.
C16_UnknownIdChangesNothing ==
    [][(/\ last_op'.op \in {"rename", "remove", "retype"}
        /\ ActiveWithId(devices, last_op'.arg.id) = {})
       => /\ last_op'.res \in FailureResponses
          /\ last_op'.rt = <<>>
          /\ UNCHANGED <<devices, accessories, prefs, retained>>]_vars

\* C16, reached: a rename named the id of a removed record and was answered
\* with not-found.
C16_RenameOfRemovedId ==
    /\ last_op.op = "rename"
    /\ last_op.res = "Device not found"
    /\ ~last_op.changed
    /\ \E i \in 1..Len(devices) :
           ~devices[i].active /\ devices[i].id = last_op.arg.id

\* C17: a completed rename changes, of the persistent fields and the last
\* readings of the record, the name only: id, active flag, capability flags,
\* type overrides and readings are as before and the other records are
\* unchanged; the lookup of the id returns the same record, and a valid
\* packet with that id that follows the rename updates this record and
\* creates none.
C17_RenameKeepsIdentityOfRecord ==
    [][/\ (last_op'.op = "rename" /\ last_op'.res = "Renamed")
            => LET i == last_op'.dev
                   id == last_op'.arg.id
               IN  /\ [devices'[i] EXCEPT !.name = devices[i].name,
                                          !.aid = devices[i].aid,
                                          !.chars = devices[i].chars] = devices[i]
                   /\ devices'[i].id = id
                   /\ Len(devices') = Len(devices)
                   /\ \A j \in 1..Len(devices) : j # i => devices'[j] = devices[j]
                   /\ i \in ActiveWithId(devices', id)
                   /\ \A j \in ActiveWithId(devices', id) : i <= j
       /\ (/\ last_op.op = "rename"
           /\ last_op.res = "Renamed"
           /\ last_op'.op = "packet"
           /\ ValidPacket(last_op'.pkt)
           /\ last_op'.pkt.doc["id"].val = last_op.arg.id)
            => /\ last_op'.res = "updated"
               /\ last_op'.dev = last_op.dev
               /\ Len(devices') = Len(devices)
               /\ devices'[last_op.dev].last_seen = now]_vars

\* C17, reached: a record whose name was changed by a rename was updated by
\* a packet carrying its id.
C17_RenamedRecordUpdated ==
    /\ last_op.op = "packet"
    /\ last_op.res = "updated"
    /\ devices[last_op.dev].id = last_op.pkt.doc["id"].val
    /\ devices[last_op.dev].name = StrNCpy(NewName, ID_SIZE)
    /\ devices[last_op.dev].name # devices[last_op.dev].id
    /\ devices[last_op.dev].last_seen = now - 1

\* the record in slot i lacks the capability the request names
LacksCapability(d, sensor) ==
    \/ sensor = "contact" /\ ~d.has_contact
    \/ sensor = "motion" /\ ~d.has_motion

\* C18: a retype for kind contact (motion) of an active device whose
\* has_contact (has_motion) flag is false is answered with "no change", not
\* with an error, and the type overrides, the accessories and the saved
\* snapshot are unchanged.
C18_MissingCapabilityIsNoChange ==
    [][(/\ last_op'.op = "retype"
        /\ last_op'.res # "Interrupted"
        /\ Len(last_op'.arg.id) > 0
        /\ last_op'.dev # 0
        /\ LacksCapability(devices[last_op'.dev], last_op'.arg.sensor))
       => /\ last_op'.res = "No change needed"
          /\ UNCHANGED <<devices, accessories, prefs>>]_vars

\* C18, reached: a retype for kind contact of an active device without the
\* contact capability was answered with the error "Invalid sensor type".
C18_AnsweredInvalidSensorType ==
    /\ last_op.op = "retype"
    /\ last_op.res = "Invalid sensor type"
    /\ last_op.arg.sensor = "contact"
    /\ last_op.dev # 0
    /\ devices[last_op.dev].active
    /\ ~devices[last_op.dev].has_contact
    /\ ~last_op.changed

\* the five variants of a type override
TypeVariants == 0..4

\* the characteristic group each contact variant and each motion variant
\* stands for
ContactGroup(t) ==
    CASE t = CONTACT_TYPE_CONTACT -> "ContactSensorService"
      [] t = CONTACT_TYPE_LEAK -> "LeakSensorService"
      [] t = CONTACT_TYPE_SMOKE -> "SmokeSensorService"
      [] t = CONTACT_TYPE_CO -> "COSensorService"
      [] t = CONTACT_TYPE_OCCUPANCY -> "OccupancySensorContact"

MotionGroup(t) ==
    CASE t = MOTION_TYPE_MOTION -> "MotionSensorService"
      [] t = MOTION_TYPE_OCCUPANCY -> "OccupancySensorMotion"
      [] t = MOTION_TYPE_LEAK -> "LeakSensorMotion"
      [] t = MOTION_TYPE_SMOKE -> "SmokeSensorMotion"
      [] t = MOTION_TYPE_CO -> "COSensorMotion"

\* the index under which the snapshot holds the record in slot i
SaveIndex(devs, i) == Cardinality({j \in ActiveSlots(devs) : j < i})

\* C19: a retype to one of the five variants, of an active device that has
\* the capability: when the variant differs from the current type it sets
\* that override and no other field of the record (handle aside), changes no
\* other record, saves the type so that the startup load reads it back, and
\* rebinds the accessory with the characteristic group of the variant as its
\* only group of that kind; when the variant is the current type, nothing is
\* saved and no runtime call is made.
C19_SetSensorType ==
    [][(/\ last_op'.op = "retype"
        /\ last_op'.res # "Interrupted"
        /\ Len(last_op'.arg.id) > 0
        /\ last_op'.dev # 0
        /\ last_op'.arg.type \in TypeVariants
        /\ last_op'.arg.sensor \in {"contact", "motion"}
        /\ ~LacksCapability(devices[last_op'.dev], last_op'.arg.sensor))
       => LET i == last_op'.dev
              t == last_op'.arg.type
              isC == last_op'.arg.sensor = "contact"
              d == devices[i]
              e == devices'[i]
              s == SaveIndex(devices', i)
              group == IF isC THEN ContactGroup(t) ELSE MotionGroup(t)
              groups == IF isC THEN {ContactGroup(u) : u \in TypeVariants}
                        ELSE {MotionGroup(u) : u \in TypeVariants}
          IN  IF (IF isC THEN d.contact_type ELSE d.motion_type) # t
              THEN /\ last_op'.res = "Changed"
                   /\ e.contact_type = IF isC THEN t ELSE d.contact_type
                   /\ e.motion_type = IF isC THEN d.motion_type ELSE t
                   /\ [e EXCEPT !.contact_type = d.contact_type,
                                !.motion_type = d.motion_type,
                                !.aid = d.aid] = d
                   /\ Len(devices') = Len(devices)
                   /\ \A j \in 1..Len(devices) : j # i => devices'[j] = devices[j]
                   /\ PrefGet(prefs', DevKey(s, "id"), EmptyStr) = d.id
                   /\ PrefGet(prefs', DevKey(s, "ctype"), 0) = e.contact_type
                   /\ PrefGet(prefs', DevKey(s, "mtype"), 0) = e.motion_type
                   /\ Len(LoadOne(prefs', s)) = 1
                   /\ LoadOne(prefs', s)[1].id = d.id
                   /\ LoadOne(prefs', s)[1].contact_type = e.contact_type
                   /\ LoadOne(prefs', s)[1].motion_type = e.motion_type
                   /\ Cardinality(RealOf(accessories', i)) = 1
                   /\ \A k \in RealOf(accessories', i) :
                          /\ accessories'[k].aid = e.aid
                          /\ accessories'[k].services \cap groups = {group}
              ELSE /\ last_op'.res = "No change needed"
                   /\ last_op'.rt = <<>>
                   /\ UNCHANGED <<devices, accessories, prefs>>]_vars

\* C19, reached: a retype changed the motion type of a device to the
\* occupancy variant; the device's accessory carries the occupancy group and
\* the snapshot holds the type.
C19_MotionRetypedToOccupancy ==
    /\ last_op.op = "retype"
    /\ last_op.res = "Changed"
    /\ last_op.arg.sensor = "motion"
    /\ last_op.arg.type = MOTION_TYPE_OCCUPANCY
    /\ devices[last_op.dev].motion_type = MOTION_TYPE_OCCUPANCY
    /\ devices[last_op.dev].contact_type = CONTACT_TYPE_CONTACT
    /\ \E k \in RealOf(accessories, last_op.dev) :
           "OccupancySensorMotion" \in accessories[k].services
    /\ PrefGet(prefs, DevKey(SaveIndex(devices, last_op.dev), "mtype"), 0) =
           MOTION_TYPE_OCCUPANCY

\* C20: in every reachable state the contact_type and the motion_type of
\* every record of the registry, and of every record of the saved snapshot,
\* is one of the five variants, whatever type argument requests carried.
C20_TypesAreVariants ==
    /\ \A i \in 1..Len(devices) :
           /\ devices[i].contact_type \in TypeVariants
           /\ devices[i].motion_type \in TypeVariants
    /\ \A s \in 0..(PrefGet(prefs, CountKey, 0) - 1) :
           /\ PrefGet(prefs, DevKey(s, "ctype"), 0) \in TypeVariants
           /\ PrefGet(prefs, DevKey(s, "mtype"), 0) \in TypeVariants

\* C20, reached: a retype with the type argument 7 was answered Changed; the
\* record and the snapshot hold the contact type 7.
C20_ContactTypeOutOfRange ==
    /\ last_op.op = "retype"
    /\ last_op.res = "Changed"
    /\ last_op.arg.sensor = "contact"
    /\ last_op.arg.type \notin TypeVariants
    /\ devices[last_op.dev].contact_type = last_op.arg.type
    /\ PrefGet(prefs, DevKey(SaveIndex(devices, last_op.dev), "ctype"), 0) =
           last_op.arg.type

(***************************************************************************)
(* Bus sessions.                                                           *)
(***************************************************************************)
\* the publications that open a session, in order: the bridge's "online",
\* the gateway discovery, then one device discovery for every active record
\* in registry order, and nothing but the diagnostics after them
SessionOpening(p, devs) ==
    LET act == ActiveSeq(devs)
    IN  /\ Len(p) = Len(act) + 3
        /\ p[1].kind = "status"
        /\ p[2].kind = "gateway"
        /\ \A k \in 1..Len(act) :
               /\ p[k + 2].kind = "discovery"
               /\ p[k + 2].dev = act[k].id
        /\ p[Len(p)].kind = "diagnostics"

\* a handler's publications keep the order of a session: the handler that
\* opens the session publishes the opening, and a device discovery of any
\* other handler is published in a session that was open before it ran
OrderedStep ==
    /\ (~mqtt_connected /\ mqtt_connected')
           => SessionOpening(last_op'.pubs, devices')
    /\ (\E k \in 1..Len(last_op'.pubs) : last_op'.pubs[k].kind = "discovery")
           => (mqtt_connected \/ SessionOpening(last_op'.pubs, devices'))

\* C21: every bus session opens with the bridge's availability "online",
\* then the gateway discovery, then the discovery of the active devices; a
\* device discovery published by any other handler (registerDevice) is
\* published in a session that was already open, i.e. after that session's
\* gateway discovery.
C21_SessionPublicationOrder ==
    /\ mqtt_connected => SessionOpening(last_op.pubs, devices)
    /\ [][OrderedStep]_vars

\* a session opened with an active device in the registry, and a device
\* registered in an open session
C21_SessionOpenedWithDevice ==
    /\ last_op.op = "connect"
    /\ last_op.res = "ok"
    /\ Len(last_op.pubs) = 4
    /\ last_op.pubs[3].kind = "discovery"
    /\ \E i \in 1..Len(devices) : devices[i].active

\* some publication of the sequence p is a discovery of the device id
DiscoveryIn(p, id) ==
    \E k \in 1..Len(p) : p[k].kind = "discovery" /\ p[k].dev = id

\* C22: a rename or retype that completes while the transport is connected
\* republishes the device's discovery documents, so that the retained
\* discovery reflects the current name and type; a plain update of the
\* readings publishes no discovery document.
C22_DiscoveryFollowsMetadata ==
    [][/\ (/\ RebindCompleted(last_op')
           /\ last_op'.changed
           /\ mqtt_enabled
           /\ mqtt_connected)
              => DiscoveryIn(last_op'.pubs, devices'[last_op'.dev].id)
       /\ (last_op'.op = "packet" /\ last_op'.res = "updated")
              => \A k \in 1..Len(last_op'.pubs) :
                     last_op'.pubs[k].kind # "discovery"]_vars

\* a rename completed in an open session published nothing, and the retained
\* discovery document of the device still carries the name it had before
C22_RenamedWithStaleDiscovery ==
    /\ last_op.op = "rename"
    /\ last_op.res = "Renamed"
    /\ mqtt_enabled
    /\ mqtt_connected
    /\ last_op.pubs = <<>>
    /\ LET d == devices[last_op.dev]
           t == ConfigTopic(d.id, "rssi")
       IN  /\ d.active
           /\ t \in DOMAIN retained
           /\ Len(retained[t]) = 1
           /\ retained[t][1].name # d.name

\* the capabilities a packet carries a reading for that are enabled on the
\* record d; the light reading arrives as field l or lux
EnabledReadings(d, doc) ==
    (IF containsKey(doc, "t") /\ d.has_temp THEN {"temperature"} ELSE {}) \cup
    (IF containsKey(doc, "hu") /\ d.has_hum THEN {"humidity"} ELSE {}) \cup
    (IF containsKey(doc, "b") /\ d.has_batt THEN {"battery"} ELSE {}) \cup
    (IF (containsKey(doc, "l") \/ containsKey(doc, "lux")) /\ d.has_light
     THEN {"lux"} ELSE {}) \cup
    (IF containsKey(doc, "m") /\ d.has_motion THEN {"motion"} ELSE {}) \cup
    (IF containsKey(doc, "c") /\ d.has_contact THEN {"contact"} ELSE {})

\* the state publications of the sequence p
StatePubs(p) == {k \in 1..Len(p) : p[k].kind = "state"}

\* C23: a valid packet processed while the transport is connected publishes
\* exactly one state document for each of its readings whose capability is
\* enabled on the record, on that capability's state topic, and none for a
\* disabled capability (the signal strength is published besides).
C23_StatePerEnabledReading ==
    [][(/\ last_op'.op = "packet"
        /\ last_op'.res \in {"created", "updated"}
        /\ mqtt_enabled
        /\ mqtt_connected)
           => LET d == devices'[last_op'.dev]
                  p == last_op'.pubs
              IN  /\ Cardinality(StatePubs(p)) = 1
                  /\ \A k \in StatePubs(p) :
                         p[k].topics \ {StateTopic(d.id, "rssi")} =
                             {StateTopic(d.id, c) :
                                  c \in EnabledReadings(d, last_op'.pkt.doc)}]_vars

\* a packet carrying l for a record with the light capability published no
\* lux state document
C23_LightReadingNotPublished ==
    /\ last_op.op = "packet"
    /\ last_op.res \in {"created", "updated"}
    /\ mqtt_enabled
    /\ mqtt_connected
    /\ containsKey(last_op.pkt.doc, "l")
    /\ devices[last_op.dev].has_light
    /\ \A k \in 1..Len(last_op.pubs) :
           StateTopic(devices[last_op.dev].id, "lux") \notin last_op.pubs[k].topics

\* the ids of records that were removed and are the id of no active record
RemovedIds ==
    {devices[i].id : i \in {j \in 1..Len(devices) :
                               /\ ~devices[j].active
                               /\ ActiveWithId(devices, devices[j].id) = {}}}

\* C24: no retained discovery document of a removed device survives on the
\* bus: each of its discovery topics that holds a document holds the empty
\* payload, and its availability topic holds "offline", whatever the
\* connection state was when it was removed and after any reconnect.
C24_RemovedDeviceLeavesNoDiscovery ==
    \A id \in RemovedIds :
        /\ \A c \in Capabilities :
               ConfigTopic(id, c) \in DOMAIN retained
                   => retained[ConfigTopic(id, c)] = <<>>
        /\ AvailabilityTopic(id) \in DOMAIN retained
               => retained[AvailabilityTopic(id)] = "offline"

\* a device removed while the transport was down: its retained discovery
\* document is still on the bus and its availability still "online"
C24_RemovedWhileDisconnected ==
    /\ last_op.op = "remove"
    /\ last_op.res = "Device removed"
    /\ mqtt_enabled
    /\ ~mqtt_connected
    /\ last_op.arg.id \in RemovedIds
    /\ ConfigTopic(last_op.arg.id, "rssi") \in DOMAIN retained
    /\ retained[ConfigTopic(last_op.arg.id, "rssi")] # <<>>
    /\ retained[AvailabilityTopic(last_op.arg.id)] = "online"

\* the connection attempts a handler made
Attempts(op) == {k \in 1..Len(op.calls) : op.calls[k].fn = "connectMQTT"}

DiagnosticsPubs(p) == {k \in 1..Len(p) : p[k].kind = "diagnostics"}

\* C25: two successful diagnostics publications are never less than
\* DIAGNOSTICS_MIN_INTERVAL apart, whether made by
\* publishBridgeDiagnosticsIfChanged from the loop or on a connect.
C25_DiagnosticsRateLimited ==
    [][DiagnosticsPubs(last_op'.pubs) # {}
          => /\ Cardinality(DiagnosticsPubs(last_op'.pubs)) = 1
             /\ since.diag >= DIAGNOSTICS_MIN_INTERVAL]_vars

\* a reconnect published the diagnostics less than the interval after the
\* publication before it
C25_DiagnosticsOnReconnectTooSoon ==
    /\ last_op.op = "loop"
    /\ last_op.res = "accepted"
    /\ DiagnosticsPubs(last_op.pubs) # {}
    /\ lastDiagnosticsPublish = lastMqttReconnect
    /\ lastDiagnosticsPublish > 0
    /\ lastDiagnosticsPublish < DIAGNOSTICS_MIN_INTERVAL
    /\ since.attempts = 1

\* a pass of the loop attempts at most one connection, only when the bus is
\* enabled and the transport down, and only more than the interval after the
\* attempt before it
ThrottledPass ==
    /\ Cardinality(Attempts(last_op')) <= 1
    /\ Attempts(last_op') # {}
          => /\ mqtt_enabled
             /\ ~mqtt_connected
             /\ since.attempt > MQTT_RECONNECT_INTERVAL

\* C26: while the bus is enabled and disconnected a loop pass makes at most
\* one connection attempt, two consecutive attempts are more than
\* MQTT_RECONNECT_INTERVAL apart (also across the wrap-around of the clock),
\* no attempt is made when the bus is disabled or connected, and after a
\* refused attempt a further attempt is eventually made.
C26_ThrottledReconnect ==
    /\ [][ThrottledPass]_vars
    /\ \A b \in {0, 1} :
           (last_op.res = "refused" /\ since.attempts = b)
               ~> (since.attempts # b)

\* an attempt made after the clock wrapped around since the refused one
\* before it
C26_AttemptAcrossWrapAround ==
    /\ last_op.op = "loop"
    /\ last_op.res \in {"accepted", "refused"}
    /\ since.attempts = 0
    /\ lastMqttReconnect < MQTT_RECONNECT_INTERVAL

(***************************************************************************)
(* Payload cipher.                                                         *)
(***************************************************************************)
\* C27: in XOR mode decryptBuffer applied twice with the same key of any
\* configured length (0 and lengths that do not divide the buffer length
\* included) restores the original buffer.
C27_XorTwiceRestores ==
    (cipher.mode = ENCRYPT_XOR /\ cipher.runs = 2) => cipher.data = cipher.orig

\* a buffer that the first run changed and the second restored, under a key
\* whose length does not divide the buffer's
C27_RestoredAfterTwoRuns ==
    /\ cipher.mode = ENCRYPT_XOR
    /\ cipher.runs = 2
    /\ cipher.key_len = 3
    /\ Len(cipher.orig) = 4
    /\ cipher.prev # cipher.orig
    /\ cipher.data = cipher.orig

\* the bytes of a buffer from position k + 1 on
BytesFrom(data, k) == [i \in 1..(Len(data) - k) |-> data[k + i]]

\* C30: in block mode decryptBuffer transforms only the first
\* 16 * floor(len / 16) bytes, in place: the length and the trailing partial
\* block stay as they were; a buffer shorter than a block, or any buffer
\* under a key of length 0, stays unchanged; in mode none every buffer
\* stays unchanged.
C30_BlockModeFrame ==
    [][LET n == Len(cipher.data)
           whole == AES_BLOCK * (n \div AES_BLOCK)
       IN  /\ cipher.mode = ENCRYPT_AES
                => /\ Len(cipher'.data) = n
                   /\ BytesFrom(cipher'.data, whole) = BytesFrom(cipher.data, whole)
                   /\ (n < AES_BLOCK \/ cipher.key_len = 0)
                          => cipher'.data = cipher.data
           /\ cipher.mode = ENCRYPT_NONE => cipher'.data = cipher.data]_vars

\* a buffer of one block and a byte decrypted in block mode: the block
\* changed, the byte after it did not
C30_PartialBlockKept ==
    /\ cipher.mode = ENCRYPT_AES
    /\ cipher.runs = 1
    /\ cipher.key_len > 0
    /\ Len(cipher.data) = AES_BLOCK + 1
    /\ SubSeq(cipher.data, 1, AES_BLOCK) # SubSeq(cipher.orig, 1, AES_BLOCK)
    /\ cipher.data[AES_BLOCK + 1] = cipher.orig[AES_BLOCK + 1]

(***************************************************************************)
(* Registry capacity.                                                      *)
(***************************************************************************)
\* C28: within one session registry slots are never reclaimed: device_count
\* never decreases, removeDevice frees no slot, and once MAX_DEVICES records
\* have been created every later packet with an unseen id is refused, even
\* when some or all of the records have been removed since.
C28_SlotsNeverReclaimed ==
    [][/\ Len(devices') >= Len(devices)
       /\ last_op'.op = "remove" => Len(devices') = Len(devices)
       /\ (/\ last_op'.op = "packet"
           /\ ValidPacket(last_op'.pkt)
           /\ ActiveWithId(devices, last_op'.pkt.doc["id"].val) = {}
           /\ Len(devices) = MAX_DEVICES)
              => /\ last_op'.res = "CapacityExceeded"
                 /\ devices' = devices]_vars

\* a packet refused by a registry whose records had all been created and
\* one of them removed
C28_RefusedAfterRemoval ==
    /\ last_op.op = "packet"
    /\ last_op.res = "CapacityExceeded"
    /\ Len(devices) = MAX_DEVICES
    /\ \E i \in 1..Len(devices) : ~devices[i].active
    /\ Cardinality(ActiveSlots(devices)) < MAX_DEVICES

(***************************************************************************)
(* Pairing code.                                                           *)
(***************************************************************************)
\* an 8-digit code
EightDigits(code) ==
    /\ Len(code) = 8
    /\ \A i \in 1..8 : \E k \in 1..10 : code[i] = Digits[k]

\* C29: the pairing code is generated at most once: after the first
\* loadSettings the code has eight digits and is in the store, and every
\* later handler other than a factory reset (restarts, saveSettings,
\* saveDevices) leaves the same code in RAM and in the store.
C29_PairingCodeGeneratedOnce ==
    /\ [](/\ EightDigits(homekit_code)
          /\ HkKey \in DOMAIN prefs
          /\ prefs[HkKey] = homekit_code)
    /\ [][last_op'.op # "reset" => homekit_code' = homekit_code]_vars

\* a restart that loaded saved devices and saved settings, with the code of
\* the first boot
C29_SameCodeAfterRestart ==
    /\ last_op.op = "restart"
    /\ steps = 3
    /\ Len(devices) > 0
    /\ <<"enc_mode">> \in DOMAIN prefs
    /\ homekit_code = Format08(99999998)
    /\ prefs[HkKey] = homekit_code

(***************************************************************************)
(* Persistence of the registry.                                            *)
(***************************************************************************)
\* the per-device keys of a store
DeviceKeysOf(p) == {k \in DOMAIN p : Len(k) = 2}

\* the persisted fields stored under index i
StoredRecord(p, i) ==
    [id |-> p[<<i, "id">>], name |-> p[<<i, "name">>],
     caps |-> <<p[<<i, "temp">>], p[<<i, "hum">>], p[<<i, "batt">>],
                p[<<i, "light">>], p[<<i, "motion">>], p[<<i, "contact">>]>>,
     contact_type |-> p[<<i, "ctype">>], motion_type |-> p[<<i, "mtype">>]]

\* the store p holds the snapshot of the registry devs: the keys of the
\* indices 0..K-1 and no other per-device key, the active records under them
\* in registry order, and the count K
HoldsSnapshot(p, devs) ==
    LET act == ActiveSeq(devs)
        K == Len(act)
    IN  /\ DeviceKeysOf(p) = {<<i, f>> : i \in 0..(K - 1), f \in DeviceFields}
        /\ \A i \in 0..(K - 1) : StoredRecord(p, i) = Persisted(act[i + 1])
        /\ <<"dev_count">> \in DOMAIN p
        /\ p[<<"dev_count">>] = K

\* C31: after every saveDevices (a registration or a removal, after any
\* sequence of them) the store holds per-device keys exactly for the indices
\* 0..K-1, K the number of active records, assigned in registry order to the
\* active records only; the count key is K and no key of an index >= K of an
\* earlier save remains.
C31_SaveDevicesSnapshot ==
    [][(last_op'.res \in {"created", "Device removed"})
           => HoldsSnapshot(prefs', devices')]_vars

\* the first of two records was removed: the second one is stored under
\* index 0 and the keys of index 1 are gone
C31_SavedAfterRemovalOfFirst ==
    /\ last_op.op = "remove"
    /\ last_op.res = "Device removed"
    /\ Len(devices) = 2
    /\ ~devices[1].active
    /\ devices[2].active
    /\ devices[2].has_temp # devices[1].has_temp
    /\ prefs[<<0, "temp">>] = devices[2].has_temp
    /\ <<1, "id">> \notin DOMAIN prefs
    /\ prefs[<<"dev_count">>] = 1

(***************************************************************************)
(* Startup.                                                                *)
(***************************************************************************)
\* the entries loadDevices examines in the store p, and those of them that
\* have an id
Examined(p) ==
    IF <<"dev_count">> \in DOMAIN p
    THEN {i \in 0..(MAX_DEVICES - 1) : i < p[<<"dev_count">>]}
    ELSE {}

NonSkipped(p) ==
    {i \in Examined(p) : <<i, "id">> \in DOMAIN p /\ Len(p[<<i, "id">>]) > 0}

\* C32: after loadDevices (a boot or a restart) the registry holds one
\* active record for every entry among the first min(count, MAX_DEVICES) of
\* the store that has a non-empty id, and no other record: entries with an
\* empty or missing id are skipped, those after them are still loaded, the
\* records are in the order of their entries in consecutive slots, and
\* device_count is the number of entries not skipped.
C32_LoadSkipsEmptyEntries ==
    (last_op.op \in {"boot", "restart"})
        => /\ Len(devices) = Cardinality(NonSkipped(prefs))
           /\ \A i \in NonSkipped(prefs) :
                  LET d == devices[Cardinality({j \in NonSkipped(prefs) : j < i}) + 1]
                  IN  /\ d.active
                      /\ d.id = prefs[<<i, "id">>]
                      /\ Persisted(d) = StoredRecord(prefs, i)

\* a boot from a store whose first entry has an empty id and whose second
\* has one: the second entry is the only record
C32_LoadedAfterSkippedEntry ==
    /\ last_op.op = "boot"
    /\ prefs[<<"dev_count">>] > MAX_DEVICES
    /\ <<0, "id">> \in DOMAIN prefs
    /\ prefs[<<0, "id">>] = <<>>
    /\ <<1, "id">> \in DOMAIN prefs
    /\ prefs[<<1, "id">>] # <<>>
    /\ <<MAX_DEVICES, "id">> \in DOMAIN prefs
    /\ prefs[<<MAX_DEVICES, "id">>] # <<>>
    /\ Len(devices) = Cardinality(NonSkipped(prefs))
    /\ devices[1].id = prefs[<<1, "id">>]

(***************************************************************************)
(* Activity log.                                                           *)
(***************************************************************************)
\* the entries of the log, the oldest first: the cnt entries before the
\* write index idx
LogView(log, idx, cnt) ==
    [i \in 1..cnt |->
         log[(idx - cnt + i - 1 + MAX_ACTIVITY_LOG) % MAX_ACTIVITY_LOG]]

\* the last n elements of a sequence
LastN(s, n) == IF Len(s) <= n THEN s ELSE SubSeq(s, Len(s) - n + 1, Len(s))

\* one step of the log: an update appends one entry and drops the oldest
\* one of a full log, a clear empties the log
LogStep ==
    LET before == LogView(activityLog, activityLogIndex, activityLogCount)
        after == LogView(activityLog', activityLogIndex', activityLogCount')
    IN  /\ activityLogCount' \in 0..MAX_ACTIVITY_LOG
        /\ activityLogIndex' \in 0..(MAX_ACTIVITY_LOG - 1)
        /\ (last_op'.op = "packet" /\ last_op'.res \in {"created", "updated"})
               => /\ after = LastN(Append(before, after[Len(after)]),
                                   MAX_ACTIVITY_LOG)
                  /\ after[Len(after)] =
                         [timestamp |-> now,
                          device_name |-> devices'[last_op'.dev].name,
                          message |-> last_op'.pkt.doc]
        /\ last_op'.op = "clear" => after = <<>>

\* C33: the activity log is a bounded circular buffer: the entry count stays
\* in 0..MAX_ACTIVITY_LOG and the write index in 0..MAX_ACTIVITY_LOG-1, each
\* updateDevice appends exactly one entry, which replaces the oldest one
\* when the log is full, and a clear empties the log; so the log holds the
\* most recent min(n, MAX_ACTIVITY_LOG) entries appended since the last
\* clear, in append order.
C33_BoundedCircularLog == [][LogStep]_vars

\* a log cleared after its first entry and wrapped by the entries appended
\* since: it holds the last MAX_ACTIVITY_LOG of them, in order
C33_WrappedAfterClear ==
    /\ last_op.op = "packet"
    /\ now = MAX_ACTIVITY_LOG + 3
    /\ packets_received = MAX_ACTIVITY_LOG + 2
    /\ activityLogCount = MAX_ACTIVITY_LOG
    /\ activityLogIndex = 1
    /\ LET view == LogView(activityLog, activityLogIndex, activityLogCount)
       IN  \A i \in 1..MAX_ACTIVITY_LOG :
               view[i].timestamp = now - MAX_ACTIVITY_LOG + i - 1

(***************************************************************************)
(* The rebind as a critical section.                                       *)
(***************************************************************************)
\* the identities of the accessories of the list accs that belong to
\* records other than the one in slot i
OthersIn(accs, i) ==
    {<<accs[k].dev, accs[k].aid>> :
         k \in {q \in 1..Len(accs) : accs[q].kind = "device" /\ accs[q].dev # i}}

\* a completed rebind of the record in slot i made runtime calls for that
\* record and its placeholder only, from the deletion of the old identity to
\* the deletion of the placeholder: it called no registration or update,
\* published nothing, and left every other record and the accessories of the
\* other records as they were, after each of its calls
RebindUninterrupted ==
    RebindCompleted(last_op')
        => LET rt == last_op'.rt
               i == last_op'.dev
           IN  /\ last_op'.calls = <<>>
               /\ last_op'.pubs = <<>>
               /\ Len(devices') = Len(devices)
               /\ \A j \in 1..Len(devices) : j # i => devices'[j] = devices[j]
               /\ devices'[i].id = devices[i].id
               /\ devices'[i].active
               /\ rt[1].fn = "deleteAccessory"
               /\ rt[1].aid = devices[i].aid
               /\ rt[Len(rt)].fn = "deleteAccessory"
               /\ \A s \in 2..(Len(rt) - 1) :
                      rt[s].fn \in {"new SpanAccessory", "createHomekitAccessory"}
               /\ \A s \in 1..Len(rt) :
                      OthersIn(rt[s].live, i) = OthersIn(accessories, i)

StoredSet(p) ==
    IF <<"dev_count">> \in DOMAIN p
    THEN {StoredRecord(p, i) : i \in 0..(p[<<"dev_count">>] - 1)}
    ELSE {}

ActiveSet(devs) == {Persisted(devs[i]) : i \in ActiveSlots(devs)}

\* the snapshot in the store is the projection of the registry
InSync(p, devs) ==
    /\ StoredSet(p) = ActiveSet(devs)
    /\ (<<"dev_count">> \in DOMAIN p
            => p[<<"dev_count">>] = Cardinality(ActiveSlots(devs)))
    /\ (<<"dev_count">> \notin DOMAIN p => ActiveSlots(devs) = {})

\* C35: between operations the persisted snapshot is the projection of the
\* registry onto the persisted fields: every registration, update, rename,
\* retype and removal that starts with the id, name, capability flags and
\* type overrides of exactly the active records in the store also ends so
\* (as the first boot does).
C35_SnapshotFollowsRegistry ==
    [][(/\ last_op'.op \in {"packet", "rename", "retype", "remove"}
        /\ last_op'.res \notin {"Interrupted", "Crash"}
        /\ InSync(prefs, devices))
           => InSync(prefs', devices')]_vars

\* a retype changed the contact type of one of two devices: the store holds
\* the new type and the records of both
C35_RetypeInSnapshot ==
    /\ last_op.op = "retype"
    /\ last_op.res = "Changed"
    /\ devices[last_op.dev].contact_type = CONTACT_TYPE_LEAK
    /\ Cardinality(ActiveSlots(devices)) = 2
    /\ InSync(prefs, devices)
    /\ \E i \in 0..1 : prefs[<<i, "ctype">>] = CONTACT_TYPE_LEAK

(***************************************************************************)
(* Records and accessories.                                                *)
(***************************************************************************)
\* C36: between operations, with the accessory runtime started, the active
\* records and the live device accessories correspond one to one: every
\* active record has a non-zero handle that names a live identity, two
\* active records have different handles, every inactive record has handle
\* 0, and every live identity other than the bridge's is the handle of an
\* active record.
C36_RecordsMatchAccessories ==
    homekit_started
        => /\ \A i \in ActiveSlots(devices) :
                  /\ devices[i].aid > 0
                  /\ \E k \in 1..Len(accessories) :
                         accessories[k].aid = devices[i].aid
           /\ \A i, j \in ActiveSlots(devices) :
                  devices[i].aid = devices[j].aid => i = j
           /\ \A i \in 1..Len(devices) :
                  ~devices[i].active => devices[i].aid = 0
           /\ \A k \in 1..Len(accessories) :
                  accessories[k].kind # "bridge"
                      => \E i \in ActiveSlots(devices) :
                             devices[i].aid = accessories[k].aid
           /\ \A k, q \in 1..Len(accessories) :
                  accessories[k].aid = accessories[q].aid => k = q

\* one of two bound devices was removed: the removed record has handle 0,
\* and the bridge and the accessory of the other record are the live
\* identities
C36_RemovedBesideReboundDevice ==
    /\ last_op.op = "remove"
    /\ last_op.res = "Device removed"
    /\ last_op.old > 0
    /\ Len(devices) = 2
    /\ devices[last_op.dev].aid = 0
    /\ Len(accessories) = 2
    /\ \E i \in ActiveSlots(devices) :
           /\ devices[i].aid > 1
           /\ accessories[2].aid = devices[i].aid

(***************************************************************************)
(* Ids of active records.                                                  *)
(***************************************************************************)
\* C37: no active record has an empty id: a packet whose id is the empty
\* string produces no active record, so that every record saveDevices
\* writes has an id loadDevices accepts.
C37_NoActiveRecordWithEmptyId ==
    \A i \in ActiveSlots(devices) : devices[i].id # EmptyStr

\* C37, reached: a valid packet with the empty string as id created an
\* active record with an empty id, and saveDevices wrote it with that id.
C37_EmptyIdRegistered ==
    /\ last_op.op = "packet"
    /\ last_op.res = "created"
    /\ last_op.pkt.doc["id"] = Str(EmptyStr)
    /\ devices[last_op.dev].active
    /\ devices[last_op.dev].id = EmptyStr
    /\ \E i \in 0..(prefs[<<"dev_count">>] - 1) : prefs[<<i, "id">>] = EmptyStr

(***************************************************************************)
(* Bounds of the registry.                                                 *)
(***************************************************************************)
\* C38: in every reachable state device_count is in 0..MAX_DEVICES and the
\* number of active records is at most device_count: neither loadDevices at
\* startup, whatever the stored count, nor the registrations after it
\* write a record at or beyond slot MAX_DEVICES.
C38_RegistryWithinBounds ==
    /\ Len(devices) \in 0..MAX_DEVICES
    /\ Cardinality({i \in 1..Len(devices) : devices[i].active}) <= Len(devices)

\* a boot from a store whose count and entries exceed the registry loaded
\* MAX_DEVICES records, and a packet of an unseen id was refused afterwards
C38_RefusedAfterFullLoad ==
    /\ last_op.op = "packet"
    /\ last_op.res = "CapacityExceeded"
    /\ prefs[<<"dev_count">>] = MAX_DEVICES + 1
    /\ <<MAX_DEVICES, "id">> \in DOMAIN prefs
    /\ prefs[<<MAX_DEVICES, "id">>] # EmptyStr
    /\ Len(devices) = MAX_DEVICES

(***************************************************************************)
(* Removed records.                                                        *)
(***************************************************************************)
\* C39: a record that has been soft-deleted is not touched again in the
\* session: no later packet, test-device request, rename, retype or removal
\* changes its readings, rssi or last_seen, and none calls updateDevice for
\* it (which would append an activity-log entry and publish a state
\* document for it).
C39_RemovedRecordUntouched ==
    [][(/\ last_op'.op \in {"packet", "test", "rename", "retype", "remove"}
        /\ last_op'.res \notin {"Interrupted", "Crash"})
           => \A i \in 1..Len(devices) :
                  ~devices[i].active
                      => /\ devices'[i] = devices[i]
                         /\ \A c \in 1..Len(last_op'.calls) :
                                last_op'.calls[c].fn = "updateDevice"
                                    => last_op'.calls[c].dev # i]_vars

\* C39, reached: a test-device "update" request called updateDevice for a
\* removed test device: the inactive record has the rssi and the time of
\* the request, and the activity log has an entry of the request for it.
C39_RemovedTestDeviceUpdated ==
    /\ last_op.op = "test"
    /\ last_op.res = "Updated"
    /\ \E i \in 1..Len(devices) :
           /\ ~devices[i].active
           /\ devices[i].rssi = 0 - 50
           /\ devices[i].last_seen = now - 1
           /\ \E c \in 1..Len(last_op.calls) :
                  /\ last_op.calls[c].fn = "updateDevice"
                  /\ last_op.calls[c].dev = i
           /\ \E k \in 0..(MAX_ACTIVITY_LOG - 1) :
                  /\ activityLog[k].timestamp = now - 1
                  /\ activityLog[k].device_name = devices[i].name


\* the state document of capability cap of record i that the handler left
\* on the message bus, as a truth value
PublishedFlag(r, d, cap) == r[StateTopic(d.id, cap)] = Str("on")

\* C40: for a valid packet that carries m (c) for a device with the motion
\* (contact) capability, with the message bus connected, the motion (contact)
\* state document published is "on" exactly when the motion (contact) value
\* updateDevice stored in the record is true.
C40_PublishedFlagIsStoredFlag ==
    [][(/\ last_op'.op = "packet"
        /\ last_op'.res \in {"created", "updated"}
        /\ mqtt_enabled /\ mqtt_connected)
           => LET doc == last_op'.pkt.doc
                  d == devices'[last_op'.dev]
              IN  /\ (containsKey(doc, "m") /\ d.has_motion)
                         => /\ StateTopic(d.id, "motion") \in DOMAIN retained'
                            /\ PublishedFlag(retained', d, "motion") = d.motion
                  /\ (containsKey(doc, "c") /\ d.has_contact)
                         => /\ StateTopic(d.id, "contact") \in DOMAIN retained'
                            /\ PublishedFlag(retained', d, "contact") = d.contact]_vars

\* a packet with "m":"off" was handled with the bus connected: the record
\* holds motion = false and the motion state document says "on"
C40_OffPublishedAsOn ==
    /\ last_op.op = "packet"
    /\ last_op.res \in {"created", "updated"}
    /\ mqtt_enabled /\ mqtt_connected
    /\ containsKey(last_op.pkt.doc, "m")
    /\ last_op.pkt.doc["m"] = Str("off")
    /\ devices[last_op.dev].has_motion
    /\ ~devices[last_op.dev].motion
    /\ retained[StateTopic(devices[last_op.dev].id, "motion")] = Str("on")

====
